---- MODULE Spec2Model ----
(***************************************************************************)
(* Conversation / generation state machine of Qbit Architect               *)
(* (src/Home.tsx, component Home).                                         *)
(*                                                                         *)
(* Every React event handler and every continuation of an awaited backend  *)
(* call is one atomic action on the committed component state: the UI is   *)
(* single threaded and a discrete event is rendered before the next one    *)
(* is dispatched.                                                          *)
(*                                                                         *)
(* Strings (texts, data URLs, MIME types, payloads) are sequences of       *)
(* tokens, so that trimming, splitting and concatenation are computed.     *)
(* An optional field of a JS object is a field that is absent from the     *)
(* record's DOMAIN.                                                        *)
(*                                                                         *)
(* Display-only state is left out: loadingMessage and its interval timer,  *)
(* errorMessage, the textarea height and focus, the brush colour and size. *)
(* The window is desktop-wide throughout (isDesktop), so the explore       *)
(* button and the explore modal are rendered.                              *)
(*                                                                         *)
(* Spec is the Turn Orchestrator of Home. The two modals (ExploreSpec,     *)
(* ReviseSpec) start from an idle Home that holds a design, a state Spec   *)
(* reaches; so do the replies to a design (ReplySpec) and the three        *)
(* controllers side by side (StudioSpec), and a send overlapping a         *)
(* revision and a reset (OverlapSpec). Bundle assembly, the image codec,   *)
(* the decoder with its callers and the reading of a response are also     *)
(* taken alone (AssembleSpec, CodecSpec, HandleSpec, ParseSpec).           *)
(***************************************************************************)
EXTENDS Integers, Sequences, FiniteSets, TLC

(***************************************************************************)
(* Bounds of the model                                                     *)
(***************************************************************************)
\* longest conversation log explored: a send is taken up only when the log with
\* the model turn it leads to has at most MaxLog turns
MaxLog == 3
\* most inline images in the first candidate of a backend response
MaxRespImages == 2
\* longest conversation log explored where a design is replied to
MaxReplyLog == 4
\* most file reads (FileReader.readAsDataURL) pending at once
MaxFileReads == 1
\* longest image sequence handed to the bundle assembly taken alone
MaxAssembleLen == 4
\* longest MIME type and longest payload handed to the image codec taken alone
MaxCodecLen == 2
\* most parts of the first candidate of a response given to the parser taken alone
MaxParseLen == 3
\* longest handle given to the decoder taken alone
MaxHandleLen == 5
\* most handlePlanClick invocations suspended at once
MaxExploreCalls == 2
\* most snapshots the undo history of the edit-plan modal is let grow to
MaxHistory == 2
\* most stroke segments drawn on the canvas of the edit-plan modal
MaxMarks == 1

(***************************************************************************)
(* Strings                                                                 *)
(***************************************************************************)
Space == " "

RECURSIVE StringsUpTo(_, _)
StringsUpTo(chars, n) ==
    IF n = 0 THEN {<< >>}
    ELSE LET shorter == StringsUpTo(chars, n - 1)
         IN  shorter \cup {Append(s, c) : s \in shorter, c \in chars}

\* the values the textarea's onChange delivers: nothing, blanks only, a text,
\* a text with blanks around it
InputTexts == {<< >>, << Space >>, << "a" >>, << Space, "b", Space >>}

RECURSIVE TrimStart(_)
TrimStart(s) ==
    IF s # << >> /\ Head(s) = Space THEN TrimStart(Tail(s)) ELSE s

RECURSIVE TrimEnd(_)
TrimEnd(s) ==
    IF s # << >> /\ s[Len(s)] = Space THEN TrimEnd(SubSeq(s, 1, Len(s) - 1)) ELSE s

\* a mutation of Trim: the input is taken as typed
Trim_Identity(s) == s

\* String.prototype.trim
Trim(s) == TrimEnd(TrimStart(s))

\* JS truthiness of a string
Truthy(s) == s # << >>

(***************************************************************************)
(* Image codec                                                             *)
(***************************************************************************)
\* index of the first occurrence of token c in s at or after position i, 0 if none
RECURSIVE IndexFrom(_, _, _)
IndexFrom(s, c, i) ==
    IF i > Len(s) THEN 0
    ELSE IF s[i] = c THEN i
    ELSE IndexFrom(s, c, i + 1)

\* String.prototype.split(',')
RECURSIVE SplitComma(_)
SplitComma(s) ==
    LET i == IndexFrom(s, ",", 1)
    IN  IF i = 0 THEN << s >>
        ELSE << SubSeq(s, 1, i - 1) >> \o SplitComma(SubSeq(s, i + 1, Len(s)))

\* a mutation of MimeMatch: the capture group opens before the colon, /(:.*?);/
MimeMatch_KeepColon(header) ==
    LET c == IndexFrom(header, ":", 1)
        e == IF c = 0 THEN 0 ELSE IndexFrom(header, ";", c + 1)
    IN  IF c = 0 \/ e = 0 THEN [matched |-> FALSE, group |-> << >>]
        ELSE [matched |-> TRUE, group |-> SubSeq(header, c, e - 1)]

\* header.match(/:(.*?);/): the capture group, or no match
MimeMatch(header) ==
    LET c == IndexFrom(header, ":", 1)
        e == IF c = 0 THEN 0 ELSE IndexFrom(header, ";", c + 1)
    IN  IF c = 0 \/ e = 0 THEN [matched |-> FALSE, group |-> << >>]
        ELSE [matched |-> TRUE, group |-> SubSeq(header, c + 1, e - 1)]

\* a mutation of dataURLtoBase64: the test of arr.length is missing and the
\* payload is the last piece of the split
dataURLtoBase64_NoLengthTest(dataurl) ==
    LET arr == SplitComma(dataurl)
        mimeMatch == MimeMatch(arr[1])
    IN  IF ~mimeMatch.matched THEN [mimeType |-> << >>, data |-> << >>]
        ELSE [mimeType |-> mimeMatch.group, data |-> arr[Len(arr)]]

\* lines 307-313: the pair of a handle, or the pair of empty strings
dataURLtoBase64(dataurl) ==
    LET arr == SplitComma(dataurl)
    IN  IF Len(arr) < 2 THEN [mimeType |-> << >>, data |-> << >>]
        ELSE LET mimeMatch == MimeMatch(arr[1])
             IN  IF ~mimeMatch.matched THEN [mimeType |-> << >>, data |-> << >>]
                 ELSE [mimeType |-> mimeMatch.group, data |-> arr[2]]

\* the template `data:${mimeType};base64,${data}`
DataUrl(mimeType, data) ==
    << "data", ":" >> \o mimeType \o << ";", "base64", "," >> \o data

\* inline-image parts pushed on geminiParts for one handle (none when the
\* decoded MIME type or payload is empty)
InlineParts(handle) ==
    LET d == dataURLtoBase64(handle)
    IN  IF Truthy(d.mimeType) /\ Truthy(d.data)
        THEN << [inlineData |-> [mimeType |-> d.mimeType, data |-> d.data]] >>
        ELSE << >>

(***************************************************************************)
(* Fixed values                                                            *)
(***************************************************************************)
NoImage == << >>
NullIndex == -1
NullMessage == [role |-> "null", parts |-> << >>]
\* the null of an error state (setError(null))
NoError == << >>
\* a canvas: whether the image to draw into it is still loading, and its raster,
\* which is the image drawn into it first (NoImage for none) and the number of
\* stroke segments put on top; a canvas starts transparent
BlankCanvas == [loading |-> FALSE, base |-> NoImage, marks |-> 0]

WelcomeText == << "Welcome to Qbit Architect! I can design any building you can imagine. Describe what you'd like to create, or upload an image for inspiration. For example, try 'Design a modern 3-story office building with a rooftop garden.'" >>
ApologyText == << "I encountered an error and couldn't complete your request. Please try again." >>
FallbackText == << "I apologize, but I couldn't generate a design for that request. Could you please try rephrasing it?" >>

DEFAULT_CHAT == << [role |-> "model", parts |-> << [text |-> WelcomeText] >>] >>

MaxFileSize == 4 * 1024 * 1024

ArchitectSystemInstruction == "architectSystemInstruction"
ChatSystemInstruction == "chatSystemInstruction"

\* the data URL a FileReader produces for the picked image file
UploadHandle == DataUrl(<< "image/png" >>, << "U" >>)

(***************************************************************************)
(* The generative backend: what one generateContent call can come back     *)
(* with                                                                    *)
(***************************************************************************)
\* the k-th inline image of a response
ResponseImage(k) == [inlineData |-> [mimeType |-> << "image/png" >>, data |-> << "G", ToString(k) >>]]

\* what may precede the images of a candidate: nothing, a text part, a part
\* whose text is empty
TextPrefixes == {<< >>, << [text |-> << "r" >>] >>, << [text |-> << >>] >>}

\* the part lists of a candidate: a prefix, then up to MaxRespImages images
CandidateLists ==
    {prefix \o [k \in 1..n |-> ResponseImage(k)] :
        prefix \in TextPrefixes, n \in 0..MaxRespImages}

\* a response with one candidate, a response whose candidates list is empty,
\* a response without the candidates field (a blocked prompt)
Responses ==
    {[candidates |-> << [content |-> [parts |-> ps]] >>] : ps \in CandidateLists}
    \cup {[candidates |-> << >>], [promptFeedback |-> "blocked"]}

\* the awaited promise resolves with a response or rejects
BackendOutcomes ==
    {[kind |-> "resolve", response |-> r] : r \in Responses} \cup {[kind |-> "reject"]}

(***************************************************************************)
(* Response parsing (handleSendMessage, after the await)                   *)
(***************************************************************************)
\* response.candidates && response.candidates.length > 0
HasCandidates(response) ==
    "candidates" \in DOMAIN response /\ Len(response.candidates) > 0

\* the for-loop over response.candidates[0].content.parts
RECURSIVE CollectParts(_, _, _)
CollectParts(parts, textResponse, imageResponses) ==
    IF parts = << >> THEN [textResponse |-> textResponse, imageResponses |-> imageResponses]
    ELSE LET part == Head(parts)
         IN  IF "text" \in DOMAIN part /\ Truthy(part.text)
             THEN CollectParts(Tail(parts), textResponse \o part.text, imageResponses)
             ELSE IF "inlineData" \in DOMAIN part
             THEN CollectParts(Tail(parts), textResponse,
                      Append(imageResponses, DataUrl(part.inlineData.mimeType, part.inlineData.data)))
             ELSE CollectParts(Tail(parts), textResponse, imageResponses)

\* a mutation of ParseResponse: a response without candidates parses to nothing
ParseResponse_NoThrow(response) ==
    IF HasCandidates(response)
    THEN [threw |-> FALSE] @@ CollectParts(response.candidates[1].content.parts, << >>, << >>)
    ELSE [threw |-> FALSE, textResponse |-> << >>, imageResponses |-> << >>]

\* a mutation of ParseResponse: the last candidate is read instead of the first
ParseResponse_LastCandidate(response) ==
    IF HasCandidates(response)
    THEN [threw |-> FALSE]
             @@ CollectParts(response.candidates[Len(response.candidates)].content.parts,
                             << >>, << >>)
    ELSE [threw |-> TRUE, textResponse |-> << >>, imageResponses |-> << >>]

\* lines 469-484: the collected text and images, or the thrown "empty response"
ParseResponse(response) ==
    IF HasCandidates(response)
    THEN [threw |-> FALSE] @@ CollectParts(response.candidates[1].content.parts, << >>, << >>)
    ELSE [threw |-> TRUE, textResponse |-> << >>, imageResponses |-> << >>]

\* a mutation of BundleParts: a single image is taken as the 3D render
BundleParts_SingleAs3D(imageResponses) ==
    LET n == Len(imageResponses)
    IN  IF n = 0 THEN << >>
        ELSE << [plans2D |-> SubSeq(imageResponses, 1, n - 1), plan3D |-> imageResponses[n]] >>

\* lines 490-500: the bundle part built from the returned images
BundleParts(imageResponses) ==
    LET n == Len(imageResponses)
    IN  IF n = 0 THEN << >>
        ELSE IF n = 1 THEN << [plans2D |-> imageResponses] >>
        ELSE << [plans2D |-> SubSeq(imageResponses, 1, n - 1), plan3D |-> imageResponses[n]] >>

\* a mutation of ModelResponseParts: no canned fallback for an empty result
ModelResponseParts_NoFallback(textResponse, imageResponses) ==
    (IF Truthy(textResponse) THEN << [text |-> textResponse] >> ELSE << >>)
        \o BundleParts(imageResponses)

\* lines 486-504: the parts of the model turn
ModelResponseParts(textResponse, imageResponses) ==
    LET parts == (IF Truthy(textResponse) THEN << [text |-> textResponse] >> ELSE << >>)
                     \o BundleParts(imageResponses)
    IN  IF Len(parts) = 0 THEN << [text |-> FallbackText] >> ELSE parts

\* a mutation of ErrorTurn: the failure is reported with the canned fallback text
ErrorTurn_Fallback == [role |-> "model", parts |-> << [text |-> FallbackText] >>]

\* lines 519-525: the model turn appended by the catch block
ErrorTurn == [role |-> "model", parts |-> << [text |-> ApologyText] >>]

(***************************************************************************)
(* State of the Home component                                             *)
(***************************************************************************)
VARIABLES
    chatHistory,          \* the conversation log, DEFAULT_CHAT at first
    inputValue,           \* the text in the input field, as typed
    isLoading,            \* the orchestrator's busy flag
    showErrorModal,       \* the error dialog flag (its text, errorMessage, is display only)
    uploadedImage,        \* the uploaded image handle, NoImage for null
    mode,                 \* "architect" or "chat"
    editingMessageIndex,  \* 0-based index of the turn being edited, NullIndex for null
    replyingToMessage,    \* the turn being replied to, NullMessage for null
    exploreMessage,       \* the turn shown in the explore modal, NullMessage for null
    editingPlan,          \* the turn shown in the edit-plan modal, NullMessage for null
    fileReads,            \* number of FileReader reads that have not ended yet
    calls,                \* the suspended handleSendMessage invocations: one per
                          \* generateContent call in flight, with its request and locals
    lastEvent,            \* the handler or continuation that ran last, and what it took
    \* state of the mounted ExploreViewModal (lines 620-623)
    exploreIsLoading,     \* its isLoading
    interiorImage,        \* its interiorImage, NoImage for null
    exploreError,         \* its error, NoError for null
    exploreCalls,         \* the suspended handlePlanClick invocations
    \* state of the mounted EditPlanModal (lines 795-805)
    editIsLoading,        \* its isLoading
    editError,            \* its error, NoError for null
    prompt,               \* its prompt, as typed
    history,              \* its undo history: the sequence of canvas snapshots
    canvas,               \* the raster of its canvas
    isDrawing,            \* its isDrawing
    reviseCalls,          \* the suspended handleSubmit invocations
    \* the pure functions taken alone
    argument,             \* the input a function is applied to
    handle,               \* the data URL encoded from the argument
    value                 \* the function's result

progVars == << chatHistory, inputValue, isLoading, showErrorModal,
               uploadedImage, mode, editingMessageIndex, replyingToMessage,
               exploreMessage, editingPlan, fileReads, calls >>
exploreVars == << exploreIsLoading, interiorImage, exploreError, exploreCalls >>
editPlanVars == << editIsLoading, editError, prompt, history, canvas, isDrawing, reviseCalls >>
functionVars == << argument, handle, value >>
otherVars == << exploreVars, editPlanVars, functionVars >>
vars == << chatHistory, inputValue, isLoading, showErrorModal,
           uploadedImage, mode, editingMessageIndex, replyingToMessage,
           exploreMessage, editingPlan, fileReads, calls, lastEvent,
           exploreVars, editPlanVars, functionVars >>

\* the useState initial values of ExploreViewModal (lines 620-623)
ExploreModalInit ==
    /\ exploreIsLoading = FALSE
    /\ interiorImage = NoImage
    /\ exploreError = NoError

\* the useState initial values of EditPlanModal (lines 795-805) and the canvas
\* it mounts
EditPlanModalInit ==
    /\ editIsLoading = FALSE
    /\ editError = NoError
    /\ prompt = << >>
    /\ history = << >>
    /\ canvas = BlankCanvas
    /\ isDrawing = FALSE

\* no function is being looked at on its own
FunctionsIdle ==
    /\ argument = << >>
    /\ handle = << >>
    /\ value = << >>

\* every piece of Home state but the log is at its initial value
HomeIdle ==
    /\ inputValue = << >>
    /\ isLoading = FALSE
    /\ showErrorModal = FALSE
    /\ uploadedImage = NoImage
    /\ mode = "architect"
    /\ editingMessageIndex = NullIndex
    /\ replyingToMessage = NullMessage
    /\ exploreMessage = NullMessage
    /\ editingPlan = NullMessage
    /\ fileReads = 0
    /\ calls = << >>
    /\ lastEvent = [op |-> "init"]

\* the useState initial values of Home (lines 212-226)
HomeInit ==
    /\ chatHistory = DEFAULT_CHAT
    /\ HomeIdle

\* no modal is on the page and none has a call in flight
ModalsUnmounted ==
    /\ ExploreModalInit
    /\ exploreCalls = << >>
    /\ EditPlanModalInit
    /\ reviseCalls = << >>

Init ==
    /\ HomeInit
    /\ ModalsUnmounted
    /\ FunctionsIdle

(***************************************************************************)
(* Helpers of the handlers                                                 *)
(***************************************************************************)
\* the first part of a turn whose text is non-empty, '' if none (line 317)
RECURSIVE FirstText(_)
FirstText(parts) ==
    IF parts = << >> THEN << >>
    ELSE IF "text" \in DOMAIN Head(parts) /\ Truthy(Head(parts).text) THEN Head(parts).text
    ELSE FirstText(Tail(parts))

\* ChatBubble: msg.parts.some(p => (p.plans2D && p.plans2D.length > 0) || p.plan3D)
hasGenerations(msg) ==
    \E i \in 1..Len(msg.parts) :
        \/ "plans2D" \in DOMAIN msg.parts[i] /\ Len(msg.parts[i].plans2D) > 0
        \/ "plan3D" \in DOMAIN msg.parts[i] /\ Truthy(msg.parts[i].plan3D)

\* a mutation of CanStartEdit: the edit button is on the model turns as well
CanStartEdit_AnyRole(msg, loading) == ~loading

\* a mutation of CanStartEdit: the edit button is also offered while busy
CanStartEdit_WhileLoading(msg, loading) == msg.role = "user"

\* ChatBubble, line 584: the edit button is rendered
CanStartEdit(msg, loading) == msg.role = "user" /\ ~loading

\* ChatBubble, line 589: the reply button is rendered
CanStartReply(msg, loading) == msg.role # "user" /\ hasGenerations(msg) /\ ~loading

\* a mutation of SendRejected: && in place of the last ||
SendRejected_AndBusy(userMessageText, uploaded, isEditing, loading) ==
    (~Truthy(userMessageText) /\ ~Truthy(uploaded) /\ ~isEditing) /\ loading

\* a mutation of SendRejected: the busy flag is not looked at
SendRejected_IgnoreBusy(userMessageText, uploaded, isEditing, loading) ==
    ~Truthy(userMessageText) /\ ~Truthy(uploaded) /\ ~isEditing

\* line 357: the early return of handleSendMessage
SendRejected(userMessageText, uploaded, isEditing, loading) ==
    (~Truthy(userMessageText) /\ ~Truthy(uploaded) /\ ~isEditing) \/ loading

\* a mutation of ApplyEditToParts: an existing text part keeps its text
ApplyEditToParts_KeepText(parts, userMessageText) ==
    IF \E i \in 1..Len(parts) : "text" \in DOMAIN parts[i]
    THEN parts
    ELSE << [text |-> userMessageText] >> \o parts

\* a mutation of ApplyEditToParts: a missing text part is pushed on the end
ApplyEditToParts_AppendText(parts, userMessageText) ==
    LET mapped == [i \in 1..Len(parts) |->
                      IF "text" \in DOMAIN parts[i]
                      THEN ("text" :> userMessageText) @@ parts[i]
                      ELSE parts[i]]
        textPartFound == \E i \in 1..Len(parts) : "text" \in DOMAIN parts[i]
    IN  IF textPartFound THEN mapped ELSE mapped \o << [text |-> userMessageText] >>

\* lines 375-385: the parts of the edited turn
ApplyEditToParts(parts, userMessageText) ==
    LET mapped == [i \in 1..Len(parts) |->
                      IF "text" \in DOMAIN parts[i]
                      THEN ("text" :> userMessageText) @@ parts[i]
                      ELSE parts[i]]
        textPartFound == \E i \in 1..Len(parts) : "text" \in DOMAIN parts[i]
    IN  IF textPartFound THEN mapped ELSE << [text |-> userMessageText] >> \o mapped

\* a mutation of TruncateAt: slice(0, editIndex)
TruncateAt_Exclusive(log, editIndex) == SubSeq(log, 1, editIndex)

\* line 388: updatedHistory.slice(0, editIndex + 1)
TruncateAt(log, editIndex) == SubSeq(log, 1, editIndex + 1)

\* a mutation of ReplyPartImages: the 3D render goes before the 2D plans
ReplyPartImages_RenderFirst(part) ==
    LET RECURSIVE Plans(_)
        Plans(ps) == IF ps = << >> THEN << >> ELSE InlineParts(Head(ps)) \o Plans(Tail(ps))
    IN  (IF "plan3D" \in DOMAIN part /\ Truthy(part.plan3D) THEN InlineParts(part.plan3D) ELSE << >>)
        \o (IF "plans2D" \in DOMAIN part THEN Plans(part.plans2D) ELSE << >>)

\* lines 401-412: the inline images of one part of the replied-to turn
ReplyPartImages(part) ==
    LET RECURSIVE Plans(_)
        Plans(ps) == IF ps = << >> THEN << >> ELSE InlineParts(Head(ps)) \o Plans(Tail(ps))
    IN  (IF "plans2D" \in DOMAIN part THEN Plans(part.plans2D) ELSE << >>)
        \o (IF "plan3D" \in DOMAIN part /\ Truthy(part.plan3D) THEN InlineParts(part.plan3D) ELSE << >>)

\* lines 400-413: the inline images of the replied-to turn
RECURSIVE ReplyImages(_)
ReplyImages(parts) ==
    IF parts = << >> THEN << >> ELSE ReplyPartImages(Head(parts)) \o ReplyImages(Tail(parts))

\* a mutation of TextParts: the text part is pushed whatever the text is
TextParts_Always(userMessageText) == << [text |-> userMessageText] >>

\* lines 366-368: the text part of the outgoing request
TextParts(userMessageText) ==
    IF Truthy(userMessageText) THEN << [text |-> userMessageText] >> ELSE << >>

\* a mutation of UserParts: the uploaded image gets no preview part
UserParts_NoPreview(userMessageText, uploaded) == TextParts(userMessageText)

\* lines 415-418: the parts of the new user turn
UserParts(userMessageText, uploaded) ==
    TextParts(userMessageText)
        \o (IF Truthy(uploaded) THEN << [plans2D |-> << uploaded >>] >> ELSE << >>)

\* a mutation of CurrentUserMessage: the turn is tagged as a model turn
CurrentUserMessage_AsModel(userMessageText, uploaded) ==
    [role |-> "model", parts |-> UserParts(userMessageText, uploaded)]

\* lines 415-419: the user turn a new message or a reply adds to the log
CurrentUserMessage(userMessageText, uploaded) ==
    [role |-> "user", parts |-> UserParts(userMessageText, uploaded)]

\* line 458
SystemInstruction(m) ==
    IF m = "architect" THEN ArchitectSystemInstruction ELSE ChatSystemInstruction

\* lines 460-467: the suspended invocation and the request it issued
Call(historyForGeneration, geminiParts, m) ==
    [historyForGeneration |-> historyForGeneration,
     contents |-> [parts |-> geminiParts],
     config |-> [systemInstruction |-> SystemInstruction(m),
                 responseModalities |-> << "IMAGE", "TEXT" >>]]

\* line 462: the conversation a request carries. `contents` is given one Content
\* object, { parts: geminiParts }, so the request carries that one entry, without
\* a role; historyForGeneration stays a local of the handler
TransmittedTurns(call) == << call.contents >>

\* what kind of outcome a settled generateContent promise is: rejected, resolved
\* without candidates, resolved with a candidate that carries neither a non-empty
\* text nor an inline image, or resolved with content
OutcomeKind(outcome) ==
    IF outcome.kind = "reject" THEN "reject"
    ELSE IF ~("candidates" \in DOMAIN outcome.response) THEN "noCandidates"
    ELSE IF outcome.response.candidates = << >> THEN "noCandidates"
    ELSE LET parts == outcome.response.candidates[1].content.parts
         IN  IF \E i \in 1..Len(parts) :
                    \/ "inlineData" \in DOMAIN parts[i]
                    \/ "text" \in DOMAIN parts[i] /\ parts[i].text # << >>
             THEN "content"
             ELSE "empty"

\* a mutation of RemoveAt: the settled invocation stays, as if issued again
RemoveAt_Reissue(seq, i) == seq

\* the sequence of suspended invocations without the i-th, which has ended
RemoveAt(seq, i) == SubSeq(seq, 1, i - 1) \o SubSeq(seq, i + 1, Len(seq))

\* the modal is taken off the page (lines 1350, 1358): its state is dropped, a
\* modal mounted later starts from the initial values, and the setters that the
\* suspended invocations of the old one still hold have no effect any more
ExploreModalUnmounts ==
    /\ exploreIsLoading' = FALSE
    /\ interiorImage' = NoImage
    /\ exploreError' = NoError
    /\ exploreCalls' = [i \in 1..Len(exploreCalls) |->
                            [exploreCalls[i] EXCEPT !.mounted = FALSE]]

\* a mutation of EditPlanModalUnmounts: closing the modal abandons its calls
EditPlanModalUnmounts_CancelsCalls ==
    /\ editIsLoading' = FALSE
    /\ editError' = NoError
    /\ prompt' = << >>
    /\ history' = << >>
    /\ canvas' = BlankCanvas
    /\ isDrawing' = FALSE
    /\ reviseCalls' = << >>

EditPlanModalUnmounts ==
    /\ editIsLoading' = FALSE
    /\ editError' = NoError
    /\ prompt' = << >>
    /\ history' = << >>
    /\ canvas' = BlankCanvas
    /\ isDrawing' = FALSE
    /\ reviseCalls' = [i \in 1..Len(reviseCalls) |->
                           [reviseCalls[i] EXCEPT !.mounted = FALSE]]

(***************************************************************************)
(* Handlers                                                                *)
(***************************************************************************)
\* textarea onChange (lines 1271-1274)
SetInputValue(v) ==
    /\ inputValue' = v
    /\ lastEvent' = [op |-> "input"]
    /\ UNCHANGED << chatHistory, isLoading, showErrorModal, uploadedImage, mode,
                    editingMessageIndex, replyingToMessage, exploreMessage, editingPlan,
                    fileReads, calls,
                    otherVars >>

\* the mode switch (lines 1071, 1081)
SetMode(m) ==
    /\ mode' = m
    /\ lastEvent' = [op |-> "input"]
    /\ UNCHANGED << chatHistory, inputValue, isLoading, showErrorModal,
                    uploadedImage, editingMessageIndex, replyingToMessage, exploreMessage,
                    editingPlan, fileReads, calls,
                    otherVars >>

\* lines 291-305; the read itself ends later (FileReaderLoadEnd)
handleFileSelect(size) ==
    /\ IF size > MaxFileSize
       THEN /\ showErrorModal' = TRUE
            /\ UNCHANGED fileReads
       ELSE /\ fileReads < MaxFileReads
            /\ fileReads' = fileReads + 1
            /\ UNCHANGED showErrorModal
    /\ lastEvent' = [op |-> "input"]
    /\ UNCHANGED << chatHistory, inputValue, isLoading, uploadedImage, mode,
                    editingMessageIndex, replyingToMessage, exploreMessage, editingPlan, calls,
                    otherVars >>

\* reader.onloadend (lines 300-302)
FileReaderLoadEnd ==
    /\ fileReads > 0
    /\ fileReads' = fileReads - 1
    /\ uploadedImage' = UploadHandle
    /\ lastEvent' = [op |-> "input"]
    /\ UNCHANGED << chatHistory, inputValue, isLoading, showErrorModal, mode,
                    editingMessageIndex, replyingToMessage, exploreMessage, editingPlan, calls,
                    otherVars >>

\* the remove-image button (line 1240), rendered while an image is held
RemoveUploadedImage ==
    /\ Truthy(uploadedImage)
    /\ uploadedImage' = NoImage
    /\ lastEvent' = [op |-> "input"]
    /\ UNCHANGED << chatHistory, inputValue, isLoading, showErrorModal, mode,
                    editingMessageIndex, replyingToMessage, exploreMessage, editingPlan,
                    fileReads, calls,
                    otherVars >>

\* the Close button of the error dialog (line 1340)
CloseErrorModal ==
    /\ showErrorModal
    /\ showErrorModal' = FALSE
    /\ lastEvent' = [op |-> "input"]
    /\ UNCHANGED << chatHistory, inputValue, isLoading, uploadedImage, mode,
                    editingMessageIndex, replyingToMessage, exploreMessage, editingPlan,
                    fileReads, calls,
                    otherVars >>

\* a mutation of handleClearChat: the reset abandons the sends in flight
handleClearChat_CancelsCalls ==
    /\ Len(chatHistory) > 1
    /\ chatHistory' = DEFAULT_CHAT
    /\ editingMessageIndex' = NullIndex
    /\ replyingToMessage' = NullMessage
    /\ exploreMessage' = NullMessage
    /\ editingPlan' = NullMessage
    /\ inputValue' = << >>
    /\ mode' = "architect"
    /\ ExploreModalUnmounts
    /\ EditPlanModalUnmounts
    /\ isLoading' = FALSE
    /\ calls' = << >>
    /\ lastEvent' = [op |-> "handleClearChat"]
    /\ UNCHANGED << showErrorModal, uploadedImage, fileReads, functionVars >>

\* a mutation of handleClearChat: the reset leaves the editing index as it is
handleClearChat_KeepsEditing ==
    /\ Len(chatHistory) > 1
    /\ chatHistory' = DEFAULT_CHAT
    /\ replyingToMessage' = NullMessage
    /\ exploreMessage' = NullMessage
    /\ editingPlan' = NullMessage
    /\ inputValue' = << >>
    /\ mode' = "architect"
    /\ ExploreModalUnmounts
    /\ EditPlanModalUnmounts
    /\ lastEvent' = [op |-> "handleClearChat"]
    /\ UNCHANGED << editingMessageIndex, isLoading, showErrorModal, uploadedImage,
                    fileReads, calls, functionVars >>

\* lines 281-289; the button is disabled while the log has one turn (line 1093)
handleClearChat ==
    /\ Len(chatHistory) > 1
    /\ chatHistory' = DEFAULT_CHAT
    /\ editingMessageIndex' = NullIndex
    /\ replyingToMessage' = NullMessage
    /\ exploreMessage' = NullMessage
    /\ editingPlan' = NullMessage
    /\ inputValue' = << >>
    /\ mode' = "architect"
    /\ ExploreModalUnmounts
    /\ EditPlanModalUnmounts
    /\ lastEvent' = [op |-> "handleClearChat"]
    /\ UNCHANGED << isLoading, showErrorModal, uploadedImage, fileReads, calls,
                    functionVars >>

\* lines 315-322, behind the edit button of ChatBubble (line 584)
handleStartEdit(messageIndex) ==
    /\ messageIndex \in 0..(Len(chatHistory) - 1)
    /\ CanStartEdit(chatHistory[messageIndex + 1], isLoading)
    /\ editingMessageIndex' = messageIndex
    /\ inputValue' = FirstText(chatHistory[messageIndex + 1].parts)
    /\ lastEvent' = [op |-> "handleStartEdit"]
    /\ UNCHANGED << chatHistory, isLoading, showErrorModal, uploadedImage, mode,
                    replyingToMessage, exploreMessage, editingPlan, fileReads, calls,
                    otherVars >>

\* lines 324-328; the cancel button is rendered while editing (line 1291)
handleCancelEdit ==
    /\ editingMessageIndex # NullIndex
    /\ editingMessageIndex' = NullIndex
    /\ inputValue' = << >>
    /\ lastEvent' = [op |-> "handleCancelEdit"]
    /\ UNCHANGED << chatHistory, isLoading, showErrorModal, uploadedImage, mode,
                    replyingToMessage, exploreMessage, editingPlan, fileReads, calls,
                    otherVars >>

\* lines 330-333, behind the reply button of ChatBubble (line 589)
handleStartReply(messageIndex) ==
    /\ messageIndex \in 0..(Len(chatHistory) - 1)
    /\ CanStartReply(chatHistory[messageIndex + 1], isLoading)
    /\ replyingToMessage' = chatHistory[messageIndex + 1]
    /\ lastEvent' = [op |-> "handleStartReply"]
    /\ UNCHANGED << chatHistory, inputValue, isLoading, showErrorModal,
                    uploadedImage, mode, editingMessageIndex, exploreMessage, editingPlan,
                    fileReads, calls,
                    otherVars >>

\* the cancel-reply button (line 1224), rendered while replying
CancelReply ==
    /\ replyingToMessage # NullMessage
    /\ replyingToMessage' = NullMessage
    /\ lastEvent' = [op |-> "cancelReply"]
    /\ UNCHANGED << chatHistory, inputValue, isLoading, showErrorModal,
                    uploadedImage, mode, editingMessageIndex, exploreMessage, editingPlan,
                    fileReads, calls,
                    otherVars >>

(***************************************************************************)
(* The Turn Orchestrator: handleSendMessage (lines 353-529)                *)
(***************************************************************************)
\* lines 370-389 and 425-467: the edit branch up to the await
SendEdit(userMessageText) ==
    LET editIndex == editingMessageIndex
    IN  IF editIndex >= Len(chatHistory)
        THEN \* updatedHistory[editIndex] is undefined: the handler throws outside
             \* its try block, after setIsLoading(true)
             /\ isLoading' = TRUE
             /\ lastEvent' = [op |-> "handleSendMessage", result |-> "threw"]
             /\ UNCHANGED << chatHistory, inputValue, showErrorModal,
                             uploadedImage, mode, editingMessageIndex, replyingToMessage,
                             exploreMessage, editingPlan, fileReads, calls,
                    otherVars >>
        ELSE \* the assignment to updatedHistory[editIndex].parts writes through to
             \* the turn object the old array shares; only user turns are edited and
             \* no other state holds a user turn, so nothing else sees the write
             LET updatedHistory ==
                     [chatHistory EXCEPT ![editIndex + 1].parts =
                                             ApplyEditToParts(@, userMessageText)]
                 historyForGeneration == TruncateAt(updatedHistory, editIndex)
             IN  /\ Len(historyForGeneration) + 1 <= MaxLog
                 /\ isLoading' = TRUE
                 /\ chatHistory' = historyForGeneration
                 /\ inputValue' = << >>
                 /\ uploadedImage' = NoImage
                 /\ editingMessageIndex' = NullIndex
                 /\ replyingToMessage' = NullMessage
                 /\ calls' = Append(calls, Call(historyForGeneration,
                                                TextParts(userMessageText), mode))
                 /\ lastEvent' = [op |-> "handleSendMessage", result |-> "edit",
                                  editIndex |-> editIndex,
                                  oldText |-> FirstText(chatHistory[editIndex + 1].parts),
                                  textPartFound |->
                                      \E i \in 1..Len(chatHistory[editIndex + 1].parts) :
                                          "text" \in DOMAIN chatHistory[editIndex + 1].parts[i],
                                  discarded |-> Len(chatHistory) - Len(historyForGeneration)]
                 /\ UNCHANGED << showErrorModal, mode, exploreMessage,
                                 editingPlan, fileReads,
                    otherVars >>

\* lines 391-467: the new-message and reply branch up to the await; the send is
\* followed while the log with the model turn it leads to has at most logBound
\* turns
SendNew(userMessageText, logBound) ==
    LET geminiParts ==
            TextParts(userMessageText)
                \o (IF Truthy(uploadedImage) THEN InlineParts(uploadedImage) ELSE << >>)
                \o (IF replyingToMessage # NullMessage
                    THEN ReplyImages(replyingToMessage.parts) ELSE << >>)
        currentUserMessage == CurrentUserMessage(userMessageText, uploadedImage)
        historyForGeneration == Append(chatHistory, currentUserMessage)
    IN  /\ Len(historyForGeneration) + 1 <= logBound
        /\ isLoading' = TRUE
        /\ chatHistory' = historyForGeneration
        /\ inputValue' = << >>
        /\ uploadedImage' = NoImage
        /\ editingMessageIndex' = NullIndex
        /\ replyingToMessage' = NullMessage
        /\ calls' = Append(calls, Call(historyForGeneration, geminiParts, mode))
        /\ lastEvent' = [op |-> "handleSendMessage",
                         result |-> IF replyingToMessage # NullMessage THEN "reply" ELSE "new"]
        /\ UNCHANGED << showErrorModal, mode, exploreMessage, editingPlan,
                        fileReads,
                    otherVars >>

\* lines 353-467: the send button, the confirm-edit button or the Enter key
handleSendMessageWithin(logBound) ==
    LET userMessageText == Trim(inputValue)
        isEditing == editingMessageIndex # NullIndex
    IN  IF SendRejected(userMessageText, uploadedImage, isEditing, isLoading)
        THEN /\ lastEvent' = [op |-> "handleSendMessage", result |-> "rejected"]
             /\ UNCHANGED << progVars, otherVars >>
        ELSE IF isEditing THEN SendEdit(userMessageText)
        ELSE SendNew(userMessageText, logBound)

handleSendMessage == handleSendMessageWithin(MaxLog)

\* a mutation of SendSettles: setIsLoading(false) closes the try block instead of
\* sitting in a finally block
SendSettles_NoFinally(i, outcome) ==
    /\ i \in 1..Len(calls)
    /\ LET parsed == IF outcome.kind = "resolve"
                     THEN ParseResponse(outcome.response)
                     ELSE [threw |-> TRUE, textResponse |-> << >>, imageResponses |-> << >>]
       IN  IF parsed.threw
           THEN /\ showErrorModal' = TRUE
                /\ chatHistory' = Append(chatHistory, ErrorTurn)
                /\ UNCHANGED isLoading
           ELSE /\ chatHistory' = Append(chatHistory,
                                    [role |-> "model",
                                     parts |-> ModelResponseParts(parsed.textResponse,
                                                                  parsed.imageResponses)])
                /\ isLoading' = FALSE
                /\ UNCHANGED showErrorModal
    /\ calls' = RemoveAt(calls, i)
    /\ lastEvent' = [op |-> "sendSettles", outcome |-> OutcomeKind(outcome)]
    /\ UNCHANGED << inputValue, uploadedImage, mode, editingMessageIndex, replyingToMessage,
                    exploreMessage, editingPlan, fileReads,
                    otherVars >>

\* a mutation of SendSettles: the turn is appended to the log the invocation
\* started with, setChatHistory([...historyForGeneration, turn])
SendSettles_StaleLog(i, outcome) ==
    /\ i \in 1..Len(calls)
    /\ LET parsed == IF outcome.kind = "resolve"
                     THEN ParseResponse(outcome.response)
                     ELSE [threw |-> TRUE, textResponse |-> << >>, imageResponses |-> << >>]
       IN  IF parsed.threw
           THEN \* catch
                /\ showErrorModal' = TRUE
                /\ chatHistory' = Append(calls[i].historyForGeneration, ErrorTurn)
           ELSE /\ chatHistory' = Append(calls[i].historyForGeneration,
                                    [role |-> "model",
                                     parts |-> ModelResponseParts(parsed.textResponse,
                                                                  parsed.imageResponses)])
                /\ UNCHANGED showErrorModal
    \* finally
    /\ isLoading' = FALSE
    /\ calls' = RemoveAt(calls, i)
    /\ lastEvent' = [op |-> "sendSettles", outcome |-> OutcomeKind(outcome)]
    /\ UNCHANGED << inputValue, uploadedImage, mode, editingMessageIndex, replyingToMessage,
                    exploreMessage, editingPlan, fileReads,
                    otherVars >>

\* lines 468-528: the continuation of the i-th suspended invocation once its
\* generateContent promise has settled with the given outcome
SendSettles(i, outcome) ==
    /\ i \in 1..Len(calls)
    /\ LET parsed == IF outcome.kind = "resolve"
                     THEN ParseResponse(outcome.response)
                     ELSE [threw |-> TRUE, textResponse |-> << >>, imageResponses |-> << >>]
       IN  IF parsed.threw
           THEN \* catch
                /\ showErrorModal' = TRUE
                /\ chatHistory' = Append(chatHistory, ErrorTurn)
           ELSE /\ chatHistory' = Append(chatHistory,
                                    [role |-> "model",
                                     parts |-> ModelResponseParts(parsed.textResponse,
                                                                  parsed.imageResponses)])
                /\ UNCHANGED showErrorModal
    \* finally
    /\ isLoading' = FALSE
    /\ calls' = RemoveAt(calls, i)
    /\ lastEvent' = [op |-> "sendSettles", outcome |-> OutcomeKind(outcome)]
    /\ UNCHANGED << inputValue, uploadedImage, mode, editingMessageIndex, replyingToMessage,
                    exploreMessage, editingPlan, fileReads,
                    otherVars >>

(***************************************************************************)
(* Specification                                                           *)
(***************************************************************************)
Next ==
    \/ \E v \in InputTexts : SetInputValue(v)
    \/ \E m \in {"architect", "chat"} : SetMode(m)
    \/ \E size \in {MaxFileSize, MaxFileSize + 1} : handleFileSelect(size)
    \/ FileReaderLoadEnd
    \/ RemoveUploadedImage
    \/ CloseErrorModal
    \/ handleClearChat
    \/ \E k \in 0..(MaxLog - 1) : handleStartEdit(k)
    \/ handleCancelEdit
    \/ \E k \in 0..(MaxLog - 1) : handleStartReply(k)
    \/ CancelReply
    \/ handleSendMessage
    \/ \E i \in 1..MaxLog, outcome \in BackendOutcomes : SendSettles(i, outcome)

Spec == Init /\ [][Next]_vars

\* The proviso of the liveness claims: every generateContent promise settles, and
\* the event loop then runs the continuation that awaits it.
LiveSpec ==
    Spec /\ WF_vars(\E i \in 1..MaxLog, outcome \in BackendOutcomes : SendSettles(i, outcome))

(***************************************************************************)
(* The Explore-Interior modal: ExploreViewModal (lines 619-792)            *)
(*                                                                         *)
(* The modal is on the page while exploreMessage is set (line 1350, on a   *)
(* desktop-wide window). handlePlanClick awaits twice, so an invocation is *)
(* suspended first on generateMarkedImage and then on generateContent.     *)
(* Each suspended invocation records whether its modal is still mounted,   *)
(* and, as a history annotation that is not program state, whether it ran  *)
(* alone: no other click on the same modal was in flight with it.          *)
(***************************************************************************)
\* lines 647 and 807: message.parts.find(p => p.plans2D && p.plans2D.length > 0)
\* ?.plans2D[0], NoImage for undefined
RECURSIVE Plan2DOf(_)
Plan2DOf(parts) ==
    IF parts = << >> THEN NoImage
    ELSE IF "plans2D" \in DOMAIN Head(parts) /\ Len(Head(parts).plans2D) > 0
    THEN Head(parts).plans2D[1]
    ELSE Plan2DOf(Tail(parts))

\* ChatBubble, lines 589-601: the explore button and the edit-plan button are
\* rendered
CanStartSubWorkflow(msg, loading) == msg.role # "user" /\ hasGenerations(msg) /\ ~loading

\* what the promise of generateMarkedImage settles with (lines 649-696): the JPEG
\* data URL of the marked canvas, the "data:," a canvas without area gives, or a
\* rejection (no canvas, or the plan image failed to load)
MarkedImageOutcomes ==
    {[kind |-> "resolve", dataUrl |-> DataUrl(<< "image/jpeg" >>, << "M" >>)],
     [kind |-> "resolve", dataUrl |-> << "data", ":", "," >>],
     [kind |-> "reject"]}

\* line 718
ExplorePromptText == << "As an AI interior designer, generate a single, high-quality, first-person 3D render of the room marked by the red dot on the provided 2D floor plan. Infer the room's function and furnish it in a modern style." >>

\* the messages setError is given (lines 715, 733, 738)
MarkedImageError == << "Failed to process marked image." >>
NoInteriorError == << "Could not generate an interior view. The model did not return an image." >>
ThrownError == << "An unexpected error occurred." >>

\* line 728: response.candidates?.[0]?.content.parts.find(p => p.inlineData), as
\* the list of what was found: one part, or none
FirstInlineData(response) ==
    IF ~HasCandidates(response) THEN << >>
    ELSE LET found == SelectSeq(response.candidates[1].content.parts,
                                LAMBDA p : "inlineData" \in DOMAIN p)
         IN  IF found = << >> THEN << >> ELSE << found[1] >>

\* how many parts of the first candidate of a settled call carry an inline image
ImageCount(outcome) ==
    IF outcome.kind = "reject" THEN 0
    ELSE IF ~("candidates" \in DOMAIN outcome.response) THEN 0
    ELSE IF outcome.response.candidates = << >> THEN 0
    ELSE Len(SelectSeq(outcome.response.candidates[1].content.parts,
                       LAMBDA p : "inlineData" \in DOMAIN p))

\* a mutation of handleStartExplore: the handler of the reply button is bound to
\* the explore button
handleStartExplore_AsReply(messageIndex) ==
    /\ messageIndex \in 0..(Len(chatHistory) - 1)
    /\ CanStartSubWorkflow(chatHistory[messageIndex + 1], isLoading)
    /\ replyingToMessage' = chatHistory[messageIndex + 1]
    /\ lastEvent' = [op |-> "handleStartExplore"]
    /\ UNCHANGED << chatHistory, inputValue, isLoading, showErrorModal, uploadedImage,
                    mode, editingMessageIndex, exploreMessage, editingPlan,
                    fileReads, calls, otherVars >>

\* lines 335-337, behind the explore button of ChatBubble (line 598)
handleStartExplore(messageIndex) ==
    /\ messageIndex \in 0..(Len(chatHistory) - 1)
    /\ CanStartSubWorkflow(chatHistory[messageIndex + 1], isLoading)
    /\ exploreMessage' = chatHistory[messageIndex + 1]
    /\ lastEvent' = [op |-> "handleStartExplore"]
    /\ UNCHANGED << chatHistory, inputValue, isLoading, showErrorModal, uploadedImage,
                    mode, editingMessageIndex, replyingToMessage, editingPlan,
                    fileReads, calls, otherVars >>

\* onClose of ExploreViewModal (lines 751, 1353)
CloseExplore ==
    /\ exploreMessage # NullMessage
    /\ exploreMessage' = NullMessage
    /\ ExploreModalUnmounts
    /\ lastEvent' = [op |-> "closeExplore"]
    /\ UNCHANGED << chatHistory, inputValue, isLoading, showErrorModal, uploadedImage,
                    mode, editingMessageIndex, replyingToMessage, editingPlan,
                    fileReads, calls, editPlanVars, functionVars >>

\* lines 698-710: a click on the plan image, up to the first await. The image is
\* on the page, with this handler, whenever the modal is; the handler looks at
\* plan2D only
handlePlanClick ==
    /\ exploreMessage # NullMessage
    /\ Truthy(Plan2DOf(exploreMessage.parts))
    /\ Len(exploreCalls) < MaxExploreCalls
    /\ exploreIsLoading' = TRUE
    /\ interiorImage' = NoImage
    /\ exploreError' = NoError
    /\ exploreCalls' =
           Append([i \in 1..Len(exploreCalls) |-> [exploreCalls[i] EXCEPT !.alone = FALSE]],
                  [stage |-> "marking", mounted |-> TRUE,
                   alone |-> \A i \in 1..Len(exploreCalls) : ~exploreCalls[i].mounted,
                   parts |-> << >>])
    /\ lastEvent' = [op |-> "handlePlanClick"]
    /\ UNCHANGED << progVars, editPlanVars, functionVars >>

\* lines 711-726 and 736-741: the continuation of the i-th invocation once the
\* promise of generateMarkedImage has settled; it either issues the
\* generateContent call or ends in the catch block
MarkedImageSettles(i, outcome) ==
    /\ i \in 1..Len(exploreCalls)
    /\ exploreCalls[i].stage = "marking"
    /\ LET call == exploreCalls[i]
           decoded == IF outcome.kind = "resolve"
                      THEN dataURLtoBase64(outcome.dataUrl)
                      ELSE [mimeType |-> << >>, data |-> << >>]
           threw == outcome.kind = "reject" \/ ~Truthy(decoded.mimeType) \/ ~Truthy(decoded.data)
       IN  /\ IF threw
              THEN /\ exploreCalls' = RemoveAt(exploreCalls, i)
                   /\ IF call.mounted
                      THEN /\ exploreError' = (IF outcome.kind = "reject"
                                               THEN ThrownError ELSE MarkedImageError)
                           /\ exploreIsLoading' = FALSE
                      ELSE UNCHANGED << exploreError, exploreIsLoading >>
              ELSE /\ exploreCalls' =
                          [exploreCalls EXCEPT ![i] =
                              [stage |-> "generating", mounted |-> call.mounted,
                               alone |-> call.alone,
                               parts |-> << [inlineData |-> decoded],
                                            [text |-> ExplorePromptText] >>]]
                   /\ UNCHANGED << exploreError, exploreIsLoading >>
           /\ lastEvent' = [op |-> "markedImageSettles",
                            outcome |-> IF threw THEN "error" ELSE "marked",
                            mounted |-> call.mounted, alone |-> call.alone]
    /\ UNCHANGED << progVars, interiorImage, editPlanVars, functionVars >>

\* a mutation of ExploreSettles: the else branch that throws for a response
\* without an image is missing
ExploreSettles_NoThrow(i, outcome) ==
    /\ i \in 1..Len(exploreCalls)
    /\ exploreCalls[i].stage = "generating"
    /\ LET call == exploreCalls[i]
           found == IF outcome.kind = "resolve"
                    THEN FirstInlineData(outcome.response) ELSE << >>
       IN  /\ IF ~call.mounted
              THEN UNCHANGED << interiorImage, exploreError, exploreIsLoading >>
              ELSE /\ IF found # << >>
                      THEN /\ interiorImage' = DataUrl(found[1].inlineData.mimeType,
                                                      found[1].inlineData.data)
                           /\ UNCHANGED exploreError
                      ELSE /\ exploreError' = (IF outcome.kind = "reject"
                                               THEN ThrownError ELSE exploreError)
                           /\ UNCHANGED interiorImage
                   /\ exploreIsLoading' = FALSE
           /\ lastEvent' = [op |-> "exploreSettles",
                            outcome |-> IF found # << >> THEN "image" ELSE "error",
                            images |-> ImageCount(outcome),
                            mounted |-> call.mounted, alone |-> call.alone]
    /\ exploreCalls' = RemoveAt(exploreCalls, i)
    /\ UNCHANGED << progVars, editPlanVars, functionVars >>

\* lines 728-741: the continuation of the i-th invocation once its generateContent
\* promise has settled
ExploreSettles(i, outcome) ==
    /\ i \in 1..Len(exploreCalls)
    /\ exploreCalls[i].stage = "generating"
    /\ LET call == exploreCalls[i]
           found == IF outcome.kind = "resolve"
                    THEN FirstInlineData(outcome.response) ELSE << >>
       IN  /\ IF ~call.mounted
              THEN UNCHANGED << interiorImage, exploreError, exploreIsLoading >>
              ELSE /\ IF found # << >>
                      THEN /\ interiorImage' = DataUrl(found[1].inlineData.mimeType,
                                                      found[1].inlineData.data)
                           /\ UNCHANGED exploreError
                      ELSE /\ exploreError' = (IF outcome.kind = "reject"
                                               THEN ThrownError ELSE NoInteriorError)
                           /\ UNCHANGED interiorImage
                   /\ exploreIsLoading' = FALSE
           /\ lastEvent' = [op |-> "exploreSettles",
                            outcome |-> IF found # << >> THEN "image" ELSE "error",
                            images |-> ImageCount(outcome),
                            mounted |-> call.mounted, alone |-> call.alone]
    /\ exploreCalls' = RemoveAt(exploreCalls, i)
    /\ UNCHANGED << progVars, editPlanVars, functionVars >>

\* the turn a completed design request leaves in the log: a text, one floor plan
\* and the render
DesignedTurn ==
    [role |-> "model",
     parts |-> ModelResponseParts(<< "r" >>,
                                  << DataUrl(<< "image/png" >>, << "G", "1" >>),
                                     DataUrl(<< "image/png" >>, << "G", "2" >>) >>)]

\* the logs the sub-workflows are started from: the design of a first request, in
\* a conversation that was cleared while the request was pending or was not
DesignedLogs ==
    {DEFAULT_CHAT \o << DesignedTurn >>,
     DEFAULT_CHAT \o << [role |-> "user", parts |-> << [text |-> << "a" >>] >>], DesignedTurn >>}

\* an idle Home holding a design
DesignedInit ==
    /\ chatHistory \in DesignedLogs
    /\ HomeIdle
    /\ ModalsUnmounted
    /\ FunctionsIdle

ExploreNext ==
    \/ \E k \in 0..(MaxLog - 1) : handleStartExplore(k)
    \/ CloseExplore
    \/ handlePlanClick
    \/ \E i \in 1..MaxExploreCalls, outcome \in MarkedImageOutcomes : MarkedImageSettles(i, outcome)
    \/ \E i \in 1..MaxExploreCalls, outcome \in BackendOutcomes : ExploreSettles(i, outcome)
    \/ handleClearChat
    \/ \E k \in 0..(MaxLog - 1) : handleStartEdit(k)
    \/ handleCancelEdit
    \/ \E k \in 0..(MaxLog - 1) : handleStartReply(k)
    \/ CancelReply

ExploreSpec == DesignedInit /\ [][ExploreNext]_vars

\* the proviso of the liveness claims, for the two awaits of handlePlanClick
ExploreLiveSpec ==
    /\ ExploreSpec
    /\ WF_vars(\E i \in 1..MaxExploreCalls, outcome \in MarkedImageOutcomes :
                   MarkedImageSettles(i, outcome))
    /\ WF_vars(\E i \in 1..MaxExploreCalls, outcome \in BackendOutcomes :
                   ExploreSettles(i, outcome))

(***************************************************************************)
(* The Annotate-and-Revise modal: EditPlanModal (lines 794-1049)           *)
(*                                                                         *)
(* The modal is on the page while editingPlan is set (line 1358). The      *)
(* raster of its canvas is what was drawn into it first (the plan image,   *)
(* once loaded) and the number of stroke segments put on top; a snapshot   *)
(* in the undo history is a raster. handleStartPlanEdit is taken while no  *)
(* edit-plan modal is open: the modal covers the chat bubbles.             *)
(***************************************************************************)
\* the values the prompt textarea's onChange delivers (line 1026)
PromptTexts == {<< >>, << Space >>, << "p" >>}

\* ctx.getImageData(0, 0, canvas.width, canvas.height)
Snapshot(c) == [base |-> c.base, marks |-> c.marks]

\* ctx.putImageData(snapshot, 0, 0)
Restore(c, snapshot) == [c EXCEPT !.base = snapshot.base, !.marks = snapshot.marks]

\* canvasRef.current.toDataURL('image/jpeg', 0.9) (line 910): the JPEG of the
\* raster, or the "data:," a canvas without area gives
CanvasDataUrls(c) ==
    {DataUrl(<< "image/jpeg" >>, << "A", ToString(c.marks) >>), << "data", ":", "," >>}

\* the messages setError is given (lines 903, 912, 950, 959, 966)
MissingInputError == << "Please add a drawing and a description of your changes." >>
AnnotatedImageError == << "Failed to process annotated image." >>
EmptyResponseError == << "Received an empty response from the model." >>
MissingPlansError == << "The model did not return the required 2D and 3D plans." >>
RevisionThrownError == << "An unexpected error occurred during revision." >>

\* a mutation of SubmitDisabled: the undo history is not looked at
SubmitDisabled_NoHistory(loading, promptText, snapshots) ==
    loading \/ ~Truthy(Trim(promptText))

\* line 1036: disabled={isLoading || !prompt.trim() || history.length <= 1}
SubmitDisabled(loading, promptText, snapshots) ==
    loading \/ ~Truthy(Trim(promptText)) \/ Len(snapshots) <= 1

\* lines 339-341, behind the edit-plan button of ChatBubble (line 594); mounting
\* the modal runs its effect (lines 810-829), which starts loading the plan image
handleStartPlanEdit(messageIndex) ==
    /\ editingPlan = NullMessage
    /\ messageIndex \in 0..(Len(chatHistory) - 1)
    /\ CanStartSubWorkflow(chatHistory[messageIndex + 1], isLoading)
    /\ editingPlan' = chatHistory[messageIndex + 1]
    /\ canvas' = [BlankCanvas EXCEPT
                     !.loading = Truthy(Plan2DOf(chatHistory[messageIndex + 1].parts))]
    /\ lastEvent' = [op |-> "handleStartPlanEdit"]
    /\ UNCHANGED << chatHistory, inputValue, isLoading, showErrorModal, uploadedImage,
                    mode, editingMessageIndex, replyingToMessage, exploreMessage,
                    fileReads, calls, exploreVars, editIsLoading, editError, prompt,
                    history, isDrawing, reviseCalls, functionVars >>

\* img.onload (lines 819-825): the canvas takes the size of the plan image, which
\* clears it, the image is drawn and the undo history is seeded
PlanImageLoads ==
    /\ editingPlan # NullMessage
    /\ canvas.loading
    /\ LET loaded == [loading |-> FALSE, base |-> Plan2DOf(editingPlan.parts), marks |-> 0]
       IN  /\ canvas' = loaded
           /\ history' = << Snapshot(loaded) >>
    /\ lastEvent' = [op |-> "planImageLoads"]
    /\ UNCHANGED << progVars, exploreVars, editIsLoading, editError, prompt, isDrawing,
                    reviseCalls, functionVars >>

\* the prompt textarea's onChange (line 1026)
SetPrompt(v) ==
    /\ editingPlan # NullMessage
    /\ prompt' = v
    /\ lastEvent' = [op |-> "setPrompt"]
    /\ UNCHANGED << progVars, exploreVars, editIsLoading, editError, history, canvas,
                    isDrawing, reviseCalls, functionVars >>

\* onMouseDown (lines 873-880)
startDrawing ==
    /\ editingPlan # NullMessage
    /\ isDrawing' = TRUE
    /\ lastEvent' = [op |-> "startDrawing"]
    /\ UNCHANGED << progVars, exploreVars, editIsLoading, editError, prompt, history,
                    canvas, reviseCalls, functionVars >>

\* onMouseMove (lines 889-899): a stroke segment, while drawing
draw ==
    /\ editingPlan # NullMessage
    /\ isDrawing
    /\ canvas.marks < MaxMarks
    /\ canvas' = [canvas EXCEPT !.marks = @ + 1]
    /\ lastEvent' = [op |-> "draw"]
    /\ UNCHANGED << progVars, exploreVars, editIsLoading, editError, prompt, history,
                    isDrawing, reviseCalls, functionVars >>

\* onMouseUp and onMouseLeave (lines 882-887, with saveHistory, lines 831-836)
finishDrawing ==
    /\ editingPlan # NullMessage
    /\ Len(history) < MaxHistory
    /\ isDrawing' = FALSE
    /\ history' = Append(history, Snapshot(canvas))
    /\ lastEvent' = [op |-> "finishDrawing"]
    /\ UNCHANGED << progVars, exploreVars, editIsLoading, editError, prompt, canvas,
                    reviseCalls, functionVars >>

\* a mutation of handleUndo: the test of the history's length is missing
handleUndo_PopsSeed ==
    /\ editingPlan # NullMessage
    /\ IF Len(history) = 0
       THEN UNCHANGED << history, canvas >>
       ELSE LET newHistory == SubSeq(history, 1, Len(history) - 1)
            IN  /\ history' = newHistory
                /\ canvas' = IF newHistory = << >> THEN canvas
                              ELSE Restore(canvas, newHistory[Len(newHistory)])
    /\ lastEvent' = [op |-> "handleUndo", removed |-> Len(history) - Len(history')]
    /\ UNCHANGED << progVars, exploreVars, editIsLoading, editError, prompt, isDrawing,
                    reviseCalls, functionVars >>

\* lines 838-848
handleUndo ==
    /\ editingPlan # NullMessage
    /\ IF Len(history) <= 1
       THEN UNCHANGED << history, canvas >>
       ELSE LET newHistory == SubSeq(history, 1, Len(history) - 1)
            IN  /\ history' = newHistory
                /\ canvas' = Restore(canvas, newHistory[Len(newHistory)])
    /\ lastEvent' = [op |-> "handleUndo", removed |-> Len(history) - Len(history')]
    /\ UNCHANGED << progVars, exploreVars, editIsLoading, editError, prompt, isDrawing,
                    reviseCalls, functionVars >>

\* lines 850-857
handleClear ==
    /\ editingPlan # NullMessage
    /\ IF Len(history) = 0
       THEN UNCHANGED << history, canvas >>
       ELSE /\ history' = << history[1] >>
            /\ canvas' = Restore(canvas, history[1])
    /\ lastEvent' = [op |-> "handleClear"]
    /\ UNCHANGED << progVars, exploreVars, editIsLoading, editError, prompt, isDrawing,
                    reviseCalls, functionVars >>

\* lines 901-937: a click on the submit button, which takes clicks while it is
\* not disabled, up to the await
handleSubmit ==
    /\ editingPlan # NullMessage
    /\ ~SubmitDisabled(editIsLoading, prompt, history)
    /\ Len(chatHistory) + Len(reviseCalls) + 1 <= MaxLog
    /\ IF ~Truthy(Trim(prompt))
       THEN /\ editError' = MissingInputError
            /\ lastEvent' = [op |-> "handleSubmit", result |-> "rejected"]
            /\ UNCHANGED << editIsLoading, reviseCalls >>
       ELSE \E annotatedImage \in CanvasDataUrls(canvas) :
                LET decoded == dataURLtoBase64(annotatedImage)
                IN  IF ~Truthy(decoded.mimeType) \/ ~Truthy(decoded.data)
                    THEN \* thrown and caught before anything is awaited
                         /\ editError' = AnnotatedImageError
                         /\ editIsLoading' = FALSE
                         /\ lastEvent' = [op |-> "handleSubmit", result |-> "failed"]
                         /\ UNCHANGED reviseCalls
                    ELSE /\ editError' = NoError
                         /\ editIsLoading' = TRUE
                         /\ reviseCalls' =
                                Append(reviseCalls,
                                       [mounted |-> TRUE,
                                        parts |-> << [inlineData |-> decoded],
                                                     [text |-> prompt] >>])
                         /\ lastEvent' = [op |-> "handleSubmit", result |-> "called"]
    /\ UNCHANGED << progVars, exploreVars, prompt, history, canvas, isDrawing,
                    functionVars >>

\* a mutation of HasBothPlans: one returned image is taken for a revision
HasBothPlans_OneSuffices(imageResponses) == Len(imageResponses) >= 1

\* line 955: imageResponses.length >= 2
HasBothPlans(imageResponses) == Len(imageResponses) >= 2

\* a mutation of RevisedParts: the 2D plans and the render go into two parts
RevisedParts_TwoBundles(textResponse, imageResponses) ==
    (IF Truthy(textResponse) THEN << [text |-> textResponse] >> ELSE << >>)
        \o << [plans2D |-> SubSeq(imageResponses, 1, Len(imageResponses) - 1)],
               [plan3D |-> imageResponses[Len(imageResponses)]] >>

\* lines 955-957: the parts handed to onApplyEdits
RevisedParts(textResponse, imageResponses) ==
    (IF Truthy(textResponse) THEN << [text |-> textResponse] >> ELSE << >>)
        \o << [plans2D |-> SubSeq(imageResponses, 1, Len(imageResponses) - 1),
               plan3D |-> imageResponses[Len(imageResponses)]] >>

\* a mutation of RevisionErrorMessage: the failure is swallowed
RevisionErrorMessage_Silent(outcome, parsed) == NoError

\* lines 964-966: the message the catch block hands to setError, for a rejected
\* call, a response without candidates (line 950) and an incomplete revision
\* (line 959)
RevisionErrorMessage(outcome, parsed) ==
    IF outcome.kind = "reject" THEN RevisionThrownError
    ELSE IF parsed.threw THEN EmptyResponseError
    ELSE MissingPlansError

\* a mutation of ApplyPlanEdits: the revision takes the place of the last turn
ApplyPlanEdits_InPlace(log, newModelParts) ==
    IF Len(newModelParts) > 0
    THEN [log EXCEPT ![Len(log)] = [role |-> "model", parts |-> newModelParts]]
    ELSE log

\* lines 344-350: what handleApplyPlanEdits makes of the conversation log
ApplyPlanEdits(log, newModelParts) ==
    IF Len(newModelParts) > 0
    THEN Append(log, [role |-> "model", parts |-> newModelParts])
    ELSE log

\* lines 939-969: the continuation of the i-th invocation once its generateContent
\* promise has settled. The response is read as handleSendMessage reads it (lines
\* 939-951 repeat lines 469-484); a revision needs two images. onApplyEdits is
\* handleApplyPlanEdits of Home (lines 343-351): it closes whatever edit-plan
\* modal is open and appends the turn, also when the invocation's own modal is
\* gone
ReviseSettles(i, outcome) ==
    /\ i \in 1..Len(reviseCalls)
    /\ LET call == reviseCalls[i]
           parsed == IF outcome.kind = "resolve"
                     THEN ParseResponse(outcome.response)
                     ELSE [threw |-> TRUE, textResponse |-> << >>, imageResponses |-> << >>]
           threw == parsed.threw \/ ~HasBothPlans(parsed.imageResponses)
           others == RemoveAt(reviseCalls, i)
       IN  IF threw
           THEN /\ IF call.mounted
                   THEN /\ editError' = RevisionErrorMessage(outcome, parsed)
                        /\ editIsLoading' = FALSE
                   ELSE UNCHANGED << editError, editIsLoading >>
                /\ reviseCalls' = others
                /\ lastEvent' = [op |-> "reviseSettles", outcome |-> "error",
                                 mounted |-> call.mounted,
                                 text |-> parsed.textResponse,
                                 images |-> parsed.imageResponses]
                /\ UNCHANGED << chatHistory, editingPlan, prompt, history, canvas, isDrawing >>
           ELSE /\ editingPlan' = NullMessage
                /\ chatHistory' = ApplyPlanEdits(chatHistory,
                                                 RevisedParts(parsed.textResponse,
                                                              parsed.imageResponses))
                /\ editIsLoading' = FALSE
                /\ editError' = NoError
                /\ prompt' = << >>
                /\ history' = << >>
                /\ canvas' = BlankCanvas
                /\ isDrawing' = FALSE
                /\ reviseCalls' = [j \in 1..Len(others) |-> [others[j] EXCEPT !.mounted = FALSE]]
                /\ lastEvent' = [op |-> "reviseSettles", outcome |-> "applied",
                                 mounted |-> call.mounted,
                                 text |-> parsed.textResponse,
                                 images |-> parsed.imageResponses]
    /\ UNCHANGED << inputValue, isLoading, showErrorModal, uploadedImage, mode,
                    editingMessageIndex, replyingToMessage, exploreMessage, fileReads,
                    calls, exploreVars, functionVars >>

\* onClose of EditPlanModal: the X button and Cancel (lines 979, 1041, 1361)
CloseEditPlan ==
    /\ editingPlan # NullMessage
    /\ editingPlan' = NullMessage
    /\ EditPlanModalUnmounts
    /\ lastEvent' = [op |-> "closeEditPlan"]
    /\ UNCHANGED << chatHistory, inputValue, isLoading, showErrorModal, uploadedImage,
                    mode, editingMessageIndex, replyingToMessage, exploreMessage,
                    fileReads, calls, exploreVars, functionVars >>

ReviseNext ==
    \/ \E k \in 0..(MaxLog - 1) : handleStartPlanEdit(k)
    \/ PlanImageLoads
    \/ \E v \in PromptTexts : SetPrompt(v)
    \/ startDrawing
    \/ draw
    \/ finishDrawing
    \/ handleUndo
    \/ handleClear
    \/ handleSubmit
    \/ \E i \in 1..MaxLog, outcome \in BackendOutcomes : ReviseSettles(i, outcome)
    \/ CloseEditPlan
    \/ handleClearChat

ReviseSpec == DesignedInit /\ [][ReviseNext]_vars

(***************************************************************************)
(* Bundle assembly taken alone (lines 490-500)                             *)
(***************************************************************************)
\* the handles the images of a response are turned into
ImageHandles == {DataUrl(<< "image/png" >>, << "G", ToString(k) >>) : k \in 1..3}

\* the image sequences a response can yield, the empty one included
ImageSequences == StringsUpTo(ImageHandles, MaxAssembleLen)

AssembleInit ==
    /\ HomeInit
    /\ ModalsUnmounted
    /\ argument \in ImageSequences
    /\ handle = << >>
    /\ value = << >>

\* lines 490-500 applied to imageResponses = argument
Assemble ==
    /\ lastEvent.op = "init"
    /\ value' = BundleParts(argument)
    /\ lastEvent' = [op |-> "assemble"]
    /\ UNCHANGED << progVars, exploreVars, editPlanVars, argument, handle >>

AssembleNext == Assemble

AssembleSpec == AssembleInit /\ [][AssembleNext]_vars

(***************************************************************************)
(* The image codec taken alone (lines 307-313, 478)                        *)
(***************************************************************************)
\* the characters MIME types and payloads are made of here: a plain one and the
\* three the codec treats as separators
CodecChars == {"x", ":", ";", ","}

CodecStrings == StringsUpTo(CodecChars, MaxCodecLen)

CodecInit ==
    /\ HomeInit
    /\ ModalsUnmounted
    /\ argument \in {[mimeType |-> m, data |-> d] : m \in CodecStrings, d \in CodecStrings}
    /\ handle = << >>
    /\ value = [mimeType |-> << >>, data |-> << >>]

\* line 478: the handle made of a MIME type and a payload
Encode ==
    /\ lastEvent.op = "init"
    /\ handle' = DataUrl(argument.mimeType, argument.data)
    /\ lastEvent' = [op |-> "encode"]
    /\ UNCHANGED << progVars, exploreVars, editPlanVars, argument, value >>

\* lines 307-313 applied to that handle
Decode ==
    /\ lastEvent.op = "encode"
    /\ value' = dataURLtoBase64(handle)
    /\ lastEvent' = [op |-> "decode"]
    /\ UNCHANGED << progVars, exploreVars, editPlanVars, argument, handle >>

CodecNext == Encode \/ Decode

CodecSpec == CodecInit /\ [][CodecNext]_vars

(***************************************************************************)
(* Properties                                                              *)
(***************************************************************************)
\* the step is an invocation of handleSendMessage
IsSendStep == lastEvent'.op = "handleSendMessage"

\* the step is an invocation of handleSendMessage that got past the early return
IsAcceptedSendStep ==
    IsSendStep /\ lastEvent'.result \in {"edit", "new", "reply"}

\* the step is the continuation of a settled generateContent call of the given kind
IsSettleStep(kind) ==
    lastEvent'.op = "sendSettles" /\ lastEvent'.outcome = kind

\* the parts of a turn that carry no text field
NonTextParts(parts) == SelectSeq(parts, LAMBDA p : ~("text" \in DOMAIN p))

\* the effect of the failure path on the log, the error dialog and the busy flag
FailurePathTaken ==
    /\ chatHistory' = Append(chatHistory,
                             [role |-> "model", parts |-> << [text |-> ApologyText] >>])
    /\ showErrorModal'
    /\ ~isLoading'

\* C1: in every reachable state at most one generateContent call issued by
\* handleSendMessage is in flight, and the busy flag is set exactly while one is:
\* it is set before the call and cleared after it on the success and the failure path.
C1_AtMostOneInFlight ==
    /\ Len(calls) <= 1
    /\ isLoading <=> (Len(calls) = 1)

\* a call has failed and the busy flag is cleared again
C1_Witness ==
    /\ lastEvent.op = "sendSettles"
    /\ lastEvent.outcome = "reject"
    /\ ~isLoading
    /\ calls = << >>

\* C2: a send attempted while the orchestrator is busy changes nothing: the log,
\* the pending intent, the uploaded image, the input buffer and every other piece
\* of state stay as they are and no backend call is issued.
C2_BusySendIsNoOp ==
    [][(isLoading /\ IsSendStep) => UNCHANGED progVars]_vars

\* a send with a non-empty input was dropped while a call was in flight
C2_Witness ==
    /\ lastEvent.op = "handleSendMessage"
    /\ lastEvent.result = "rejected"
    /\ isLoading
    /\ Len(calls) = 1
    /\ inputValue = << "a" >>

\* C3: the pending intent is one of Idle, Editing(k), Replying(turn): the editing
\* index and the replied-to turn are never both set.
C3_PendingIntentExclusive ==
    ~(editingMessageIndex # NullIndex /\ replyingToMessage # NullMessage)

\* C4: an edit send addressed at turn k with new text t on a log longer than k
\* leaves a log of exactly k+1 turns whose turn k has a text part equal to t and
\* whose turns before k are unchanged; that log is the generation context.
C4_EditTruncates ==
    [][(IsSendStep /\ ~isLoading /\ editingMessageIndex # NullIndex
            /\ Len(chatHistory) > editingMessageIndex)
        => LET k == editingMessageIndex
               t == Trim(inputValue)
           IN  /\ Len(chatHistory') = k + 1
               /\ \E j \in 1..Len(chatHistory'[k + 1].parts) :
                      /\ "text" \in DOMAIN chatHistory'[k + 1].parts[j]
                      /\ chatHistory'[k + 1].parts[j].text = t
               /\ \A i \in 1..k : chatHistory'[i] = chatHistory[i]
               /\ calls' # << >>
               /\ calls'[Len(calls')].historyForGeneration = chatHistory'
      ]_vars

\* an edit of turn 1 replaced the text "a" by "b" and discarded a later turn
C4_Witness ==
    /\ lastEvent.op = "handleSendMessage"
    /\ lastEvent.result = "edit"
    /\ lastEvent.editIndex = 1
    /\ lastEvent.discarded >= 1
    /\ lastEvent.oldText = << "a" >>
    /\ Len(chatHistory) = 2
    /\ chatHistory[2].parts[1] = [text |-> << "b" >>]

\* C5: in every step the log is unchanged, or extended by one turn at its end,
\* or cut by an edit send to end at the edited turn (earlier turns unchanged, the
\* edited turn changed in its text only), or replaced by the welcome log by reset.
C5_LogAppendOnly ==
    [][\/ chatHistory' = chatHistory
       \/ /\ Len(chatHistory') = Len(chatHistory) + 1
          /\ SubSeq(chatHistory', 1, Len(chatHistory)) = chatHistory
       \/ /\ IsSendStep
          /\ editingMessageIndex # NullIndex
          /\ LET k == editingMessageIndex
             IN  /\ k < Len(chatHistory)
                 /\ Len(chatHistory') = k + 1
                 /\ \A i \in 1..k : chatHistory'[i] = chatHistory[i]
                 /\ chatHistory'[k + 1].role = chatHistory[k + 1].role
                 /\ NonTextParts(chatHistory'[k + 1].parts)
                        = NonTextParts(chatHistory[k + 1].parts)
       \/ /\ lastEvent'.op = "handleClearChat"
          /\ chatHistory' = DEFAULT_CHAT
      ]_vars

\* a model turn was appended to a log that a reset had replaced during the call
C5_Witness ==
    /\ lastEvent.op = "sendSettles"
    /\ Len(chatHistory) = 2
    /\ chatHistory[2].role = "model"

\* C6: a send with an empty or blank input, no uploaded image and no active edit
\* changes no state and issues no backend call.
C6_EmptySendIsInert ==
    [][(/\ IsSendStep
        /\ \A i \in 1..Len(inputValue) : inputValue[i] = Space
        /\ uploadedImage = NoImage
        /\ editingMessageIndex = NullIndex)
       => UNCHANGED progVars]_vars

\* a send of a blank input was dropped while the orchestrator was idle
C6_Witness ==
    /\ lastEvent.op = "handleSendMessage"
    /\ lastEvent.result = "rejected"
    /\ ~isLoading
    /\ inputValue = << Space >>
    /\ uploadedImage = NoImage
    /\ editingMessageIndex = NullIndex

\* C7: when the backend call throws, the log grows by exactly one model turn whose
\* only part is the apology text, the error dialog flag is set and the busy flag
\* cleared; nothing that was in the log is removed.
C7_ThrowTakesFailurePath ==
    [][IsSettleStep("reject") => FailurePathTaken]_vars

\* a call made for a new user turn was rejected: the user turn is still there
C7_Witness ==
    /\ lastEvent.op = "sendSettles"
    /\ lastEvent.outcome = "reject"
    /\ showErrorModal
    /\ Len(chatHistory) = 3
    /\ chatHistory[2].role = "user"
    /\ chatHistory[3].parts = << [text |-> ApologyText] >>

\* C8: a response without any candidate takes the failure path (apology turn and
\* error dialog), not the success or the fallback path.
C8_NoCandidatesFails ==
    [][IsSettleStep("noCandidates") => FailurePathTaken]_vars

\* a response without candidates was answered by the apology turn
C8_Witness ==
    /\ lastEvent.op = "sendSettles"
    /\ lastEvent.outcome = "noCandidates"
    /\ showErrorModal
    /\ chatHistory[Len(chatHistory)].parts = << [text |-> ApologyText] >>

\* C9: a response whose candidate carries neither text nor an image appends
\* exactly one model turn holding the fallback text and leaves the error dialog
\* flag as it was.
C9_EmptyCandidateFallsBack ==
    [][IsSettleStep("empty")
       => /\ chatHistory' = Append(chatHistory,
                                   [role |-> "model", parts |-> << [text |-> FallbackText] >>])
          /\ showErrorModal' = showErrorModal
          /\ ~isLoading'
      ]_vars

\* an empty candidate was answered by the fallback turn with no error dialog
C9_Witness ==
    /\ lastEvent.op = "sendSettles"
    /\ lastEvent.outcome = "empty"
    /\ ~showErrorModal
    /\ chatHistory[Len(chatHistory)].parts = << [text |-> FallbackText] >>

\* C10 as stated: at every completion of a send the uploaded image is empty, the
\* input buffer is empty and the pending intent is Idle.
C10_ClearedAtCompletion ==
    [][lastEvent'.op = "sendSettles"
       => /\ uploadedImage' = NoImage
          /\ inputValue' = << >>
          /\ editingMessageIndex' = NullIndex
          /\ replyingToMessage' = NullMessage
      ]_vars

\* C10 amended: every accepted send clears the uploaded image, the input buffer
\* and the pending intent before its backend call is issued, in the edit branch
\* as in the others; at every completion the pending intent is still Idle.
C10_ClearedAtSend ==
    [][/\ IsAcceptedSendStep
          => /\ uploadedImage' = NoImage
             /\ inputValue' = << >>
             /\ editingMessageIndex' = NullIndex
             /\ replyingToMessage' = NullMessage
       /\ lastEvent'.op = "sendSettles"
          => /\ editingMessageIndex' = NullIndex
             /\ replyingToMessage' = NullMessage
      ]_vars

\* a send completed while the input buffer and the uploaded image had been
\* refilled during the call
C10_Witness ==
    /\ lastEvent.op = "sendSettles"
    /\ inputValue # << >>
    /\ uploadedImage # NoImage
    /\ editingMessageIndex = NullIndex
    /\ replyingToMessage = NullMessage

\* C11: a reset replaces the log with the single welcome turn and clears the
\* editing index, the replied-to turn and the uploaded image.
C11_ResetClearsAll ==
    [][lastEvent'.op = "handleClearChat" =>
          /\ chatHistory' = DEFAULT_CHAT
          /\ editingMessageIndex' = NullIndex
          /\ replyingToMessage' = NullMessage
          /\ uploadedImage' = NoImage]_vars

\* C12: the request of every accepted send carries the whole generation context
\* (every turn of historyForGeneration, in order, as a role-tagged part list),
\* the new outgoing parts and the system instruction of the current mode.
C12_TransmitsHistory ==
    [][IsAcceptedSendStep =>
          LET call == calls'[Len(calls')]
              sent == TransmittedTurns(call)
              context == call.historyForGeneration
          IN  /\ context = chatHistory'
              /\ Len(sent) >= Len(context)
              /\ \A i \in 1..Len(context) :
                     /\ "role" \in DOMAIN sent[i]
                     /\ sent[i].role = context[i].role
                     /\ sent[i].parts = context[i].parts
              /\ sent[Len(sent)].parts = call.contents.parts
              /\ call.config.systemInstruction = SystemInstruction(mode)]_vars

\* the step is a send that is neither rejected nor an edit
IsNonEditSendStep == IsSendStep /\ lastEvent'.result \in {"new", "reply"}

\* the step is the continuation of a call that resolved with a candidate
IsSuccessStep == IsSettleStep("content") \/ IsSettleStep("empty")

C14_SendReturnsToIdle ==
    /\ isLoading ~> ~isLoading
    /\ [][(isLoading /\ ~isLoading') =>
              /\ lastEvent'.op = "sendSettles"
              /\ Len(chatHistory') = Len(chatHistory) + 1
              /\ SubSeq(chatHistory', 1, Len(chatHistory)) = chatHistory
              /\ chatHistory'[Len(chatHistory')].role = "model"]_vars
    /\ [][(isLoading /\ isLoading') => Len(chatHistory') <= Len(chatHistory)]_vars

\* an edit-regeneration has completed with the fallback turn and the orchestrator
\* is idle again
C14_Witness ==
    /\ lastEvent.op = "sendSettles"
    /\ lastEvent.outcome = "empty"
    /\ ~isLoading
    /\ calls = << >>
    /\ Len(chatHistory) = 3
    /\ chatHistory[2].parts = << [text |-> << "b" >>] >>
    /\ chatHistory[3].role = "model"

\* C15: the bundle built from an image sequence is nothing for the empty
\* sequence; one part holding that image as the only 2D plan and no 3D render for
\* a sequence of one; and for n >= 2 images one part whose 2D plans are the first
\* n-1 images in their order and whose 3D render is the last image.
C15_AssembleFollowsRule ==
    lastEvent.op = "assemble" =>
        LET n == Len(argument)
        IN  /\ n = 0 => value = << >>
            /\ n = 1 => /\ Len(value) = 1
                        /\ DOMAIN value[1] = {"plans2D"}
                        /\ value[1].plans2D = << argument[1] >>
            /\ n >= 2 => /\ Len(value) = 1
                         /\ DOMAIN value[1] = {"plans2D", "plan3D"}
                         /\ Len(value[1].plans2D) = n - 1
                         /\ \A i \in 1..(n - 1) : value[1].plans2D[i] = argument[i]
                         /\ value[1].plan3D = argument[n]

\* three different images have been assembled: two floors and the render
C15_Witness ==
    /\ lastEvent.op = "assemble"
    /\ Len(argument) = 3
    /\ Cardinality({argument[i] : i \in 1..3}) = 3
    /\ Len(value[1].plans2D) = 2
    /\ value[1].plan3D = argument[3]

\* character c occurs in string s
Occurs(c, s) == \E i \in 1..Len(s) : s[i] = c

ExploreOps ==
    {"handleStartExplore", "closeExplore", "handlePlanClick",
     "markedImageSettles", "exploreSettles"}

\* C17: no step of the Explore-Interior workflow (open, click, success, failure,
\* close) changes the conversation log, the editing index or the replied-to turn,
\* and none raises the error dialog of the conversation: the outcome stays in the
\* modal.
C17_ExploreLeavesStoreAlone ==
    [][lastEvent'.op \in ExploreOps =>
          UNCHANGED << chatHistory, editingMessageIndex, replyingToMessage,
                       showErrorModal >>]_vars

\* an exploration has failed while a reply was pending: the error is in the modal,
\* the log and the pending reply are as before
C17_Witness ==
    /\ lastEvent.op = "exploreSettles"
    /\ lastEvent.outcome = "error"
    /\ lastEvent.mounted
    /\ exploreError = NoInteriorError
    /\ replyingToMessage = DesignedTurn
    /\ chatHistory \in DesignedLogs
    /\ Len(chatHistory) = 3
    /\ ~showErrorModal

MountedCalls(invocations) ==
    Cardinality({i \in 1..Len(invocations) : invocations[i].mounted})

\* C19: neither sub-workflow controller runs concurrently with itself: a modal
\* has at most one of its own generations in flight.
C19_NoSelfConcurrency ==
    /\ MountedCalls(exploreCalls) <= 1
    /\ MountedCalls(reviseCalls) <= 1

\* C20: a revise submission issues a backend call only when the prompt is
\* non-empty after trimming and the undo history holds more than one snapshot;
\* with a history of one snapshot or none, or with an empty or blank prompt, a
\* step issues no call.
C20_SubmitNeedsPromptAndStroke ==
    [][/\ Len(reviseCalls') > Len(reviseCalls) =>
              /\ lastEvent'.op = "handleSubmit"
              /\ \E i \in 1..Len(prompt) : prompt[i] # Space
              /\ Len(history) > 1
       /\ lastEvent'.op = "handleSubmit" =>
              /\ \E i \in 1..Len(prompt) : prompt[i] # Space
              /\ Len(history) > 1]_vars

\* a revision was submitted with a prompt and one snapshot beyond the seed, and
\* its call is in flight
C20_Witness ==
    /\ lastEvent.op = "handleSubmit"
    /\ lastEvent.result = "called"
    /\ prompt = << "p" >>
    /\ Len(history) = 2
    /\ history[1] = [base |-> Plan2DOf(DesignedTurn.parts), marks |-> 0]
    /\ Len(reviseCalls) = 1
    /\ editIsLoading

(***************************************************************************)
(* C21: a revision response with fewer than two images is a failure, also  *)
(* when it carries text: the settling step reports an error and appends no *)
(* turn. A response with n >= 2 images succeeds: the appended model turn   *)
(* ends with a bundle whose plan3D is the last image and whose plans2D are *)
(* the n-1 images before it, in order.                                     *)
(***************************************************************************)
IsReviseSettleStep == lastEvent'.op = "reviseSettles"

C21_TwoImagesOrFailure ==
    [][IsReviseSettleStep =>
         LET images == lastEvent'.images
             n == Len(images)
         IN  /\ n < 2 => /\ lastEvent'.outcome = "error"
                         /\ chatHistory' = chatHistory
             /\ n >= 2 =>
                  /\ lastEvent'.outcome = "applied"
                  /\ Len(chatHistory') = Len(chatHistory) + 1
                  /\ LET parts == chatHistory'[Len(chatHistory')].parts
                         bundle == parts[Len(parts)]
                     IN  /\ DOMAIN bundle = {"plans2D", "plan3D"}
                         /\ bundle.plan3D = images[n]
                         /\ bundle.plans2D = [k \in 1..(n - 1) |-> images[k]]]_vars

\* a response with a text and one image has just failed in the open modal
C21_Witness ==
    /\ lastEvent.op = "reviseSettles"
    /\ lastEvent.outcome = "error"
    /\ lastEvent.text # << >>
    /\ Len(lastEvent.images) = 1
    /\ editError = << "The model did not return the required 2D and 3D plans." >>

(***************************************************************************)
(* C22: a successful revision appends exactly one model turn to the end of *)
(* the conversation log and leaves every turn that was there, the revised  *)
(* turn among them, with its content and at its position.                  *)
(***************************************************************************)
IsRevisionApplied == IsReviseSettleStep /\ lastEvent'.outcome = "applied"

C22_RevisionAppendsOneTurn ==
    [][IsRevisionApplied =>
         /\ Len(chatHistory') = Len(chatHistory) + 1
         /\ \A j \in 1..Len(chatHistory) : chatHistory'[j] = chatHistory[j]
         /\ chatHistory'[Len(chatHistory')].role = "model"
         /\ \A j \in 1..Len(chatHistory) :
                chatHistory[j] = editingPlan => chatHistory'[j] = editingPlan]_vars

\* a revision of the design at the second position has just been applied: the
\* design is where it was and the revision follows it
C22_Witness ==
    /\ lastEvent.op = "reviseSettles"
    /\ lastEvent.outcome = "applied"
    /\ Len(chatHistory) = 3
    /\ chatHistory[2] = DesignedTurn
    /\ chatHistory[3].role = "model"
    /\ "plan3D" \in DOMAIN chatHistory[3].parts[Len(chatHistory[3].parts)]

(***************************************************************************)
(* C23: a failed revision (the call is rejected, the response has no       *)
(* candidates or fewer than two images, or the annotated image cannot be   *)
(* decoded) leaves the conversation log as it was and does not close the   *)
(* modal; the modal the revision was submitted from shows an error and its *)
(* loading flag is cleared.                                                *)
(***************************************************************************)
IsRevisionFailure ==
    \/ IsReviseSettleStep /\ lastEvent'.outcome = "error"
    \/ lastEvent'.op = "handleSubmit" /\ lastEvent'.result = "failed"

FailureInOpenModal ==
    IsRevisionFailure /\ (lastEvent'.op = "reviseSettles" => lastEvent'.mounted)

C23_FailedRevisionKeepsModal ==
    /\ [][IsRevisionFailure => /\ chatHistory' = chatHistory
                               /\ editingPlan' = editingPlan]_vars
    /\ [][FailureInOpenModal => /\ editingPlan' # [role |-> "null", parts |-> << >>]
                                /\ editError' # << >>
                                /\ editIsLoading' = FALSE]_vars

\* a rejected call has just failed in the open modal
C23_Witness ==
    /\ lastEvent.op = "reviseSettles"
    /\ lastEvent.outcome = "error"
    /\ lastEvent.mounted
    /\ editingPlan = DesignedTurn
    /\ editError = << "An unexpected error occurred during revision." >>
    /\ ~editIsLoading
    /\ chatHistory \in DesignedLogs

(***************************************************************************)
(* The three controllers side by side                                      *)
(*                                                                         *)
(* Home with a design in its log, the orchestrator and both modals. A      *)
(* modal is a fixed full-window overlay (lines 747, 975), so the pointer   *)
(* reaches the controls of Home only while no modal is open; the           *)
(* continuations of suspended invocations run whenever their promise       *)
(* settles, whichever modal is open or closed by then. The conversation is *)
(* not reset and the strokes are not followed: the undo history grows with *)
(* every mouse-up.                                                         *)
(***************************************************************************)
NoModalOpen == exploreMessage = NullMessage /\ editingPlan = NullMessage

StudioNext ==
    \/ NoModalOpen /\ \E v \in InputTexts : SetInputValue(v)
    \/ NoModalOpen /\ \E k \in 0..(MaxLog - 1) : handleStartEdit(k)
    \/ NoModalOpen /\ handleSendMessage
    \/ \E i \in 1..MaxLog, outcome \in BackendOutcomes : SendSettles(i, outcome)
    \/ NoModalOpen /\ \E k \in 0..(MaxLog - 1) : handleStartExplore(k)
    \/ CloseExplore
    \/ handlePlanClick
    \/ \E i \in 1..MaxExploreCalls, outcome \in MarkedImageOutcomes : MarkedImageSettles(i, outcome)
    \/ \E i \in 1..MaxExploreCalls, outcome \in BackendOutcomes : ExploreSettles(i, outcome)
    \/ NoModalOpen /\ \E k \in 0..(MaxLog - 1) : handleStartPlanEdit(k)
    \/ PlanImageLoads
    \/ \E v \in PromptTexts : SetPrompt(v)
    \/ finishDrawing
    \/ handleSubmit
    \/ \E i \in 1..MaxLog, outcome \in BackendOutcomes : ReviseSettles(i, outcome)
    \/ CloseEditPlan

StudioSpec == DesignedInit /\ [][StudioNext]_vars

(***************************************************************************)
(* C24: no automatic retry. An accepted orchestrator send issues exactly   *)
(* one generateContent call. A revise submit issues one call, or none when *)
(* the annotated image cannot be decoded; an explore click issues none     *)
(* itself and its continuation issues one, or none when the marked image   *)
(* cannot be produced or decoded. The continuation of a settled call ends  *)
(* that call and issues none, and no other step issues a call.             *)
(***************************************************************************)
Generating(invocations) ==
    Cardinality({i \in 1..Len(invocations) : invocations[i].stage = "generating"})

Marking(invocations) ==
    Cardinality({i \in 1..Len(invocations) : invocations[i].stage = "marking"})

\* the generateContent calls that are awaited
InFlight(orchestrator, explore, revise) ==
    Len(orchestrator) + Generating(explore) + Len(revise)

IssuedByStep ==
    InFlight(calls', exploreCalls', reviseCalls') - InFlight(calls, exploreCalls, reviseCalls)

IsCallSettleStep == lastEvent'.op \in {"sendSettles", "exploreSettles", "reviseSettles"}

\* the claim as stated: every submit and every click comes to exactly one call
C24_ExactlyOneCallEach ==
    [][/\ IsAcceptedSendStep => Len(calls') = Len(calls) + 1
       /\ lastEvent'.op = "handleSubmit" => Len(reviseCalls') = Len(reviseCalls) + 1
       /\ lastEvent'.op = "markedImageSettles" =>
              Generating(exploreCalls') = Generating(exploreCalls) + 1
       /\ IsCallSettleStep => IssuedByStep = -1]_vars

C24_NoAutomaticRetry ==
    [][/\ IsAcceptedSendStep => Len(calls') = Len(calls) + 1 /\ IssuedByStep = 1
       /\ lastEvent'.op = "handleSubmit" =>
              /\ IssuedByStep = (IF lastEvent'.result = "called" THEN 1 ELSE 0)
              /\ Len(reviseCalls') = Len(reviseCalls) + IssuedByStep
       /\ lastEvent'.op = "handlePlanClick" =>
              /\ IssuedByStep = 0
              /\ Marking(exploreCalls') = Marking(exploreCalls) + 1
       /\ lastEvent'.op = "markedImageSettles" =>
              /\ IssuedByStep = (IF lastEvent'.outcome = "marked" THEN 1 ELSE 0)
              /\ Marking(exploreCalls') = Marking(exploreCalls) - 1
       /\ IsCallSettleStep => IssuedByStep = -1
       /\ ~(\/ IsAcceptedSendStep
            \/ IsCallSettleStep
            \/ lastEvent'.op \in {"handleSubmit", "handlePlanClick", "markedImageSettles"})
              => /\ IssuedByStep = 0
                 /\ Marking(exploreCalls') = Marking(exploreCalls)]_vars

\* an orchestrator call has just failed and nothing is awaited any more
C24_Witness ==
    /\ lastEvent.op = "sendSettles"
    /\ lastEvent.outcome \in {"reject", "noCandidates"}
    /\ chatHistory[Len(chatHistory)].parts = << [text |-> ApologyText] >>
    /\ InFlight(calls, exploreCalls, reviseCalls) = 0
    /\ Marking(exploreCalls) = 0

(***************************************************************************)
(* C25: a send in Editing(k) transmits exactly one part, the new text, and *)
(* neither the uploaded image nor an image of a replied-to turn, whatever  *)
(* the uploaded image and the reply state are.                             *)
(***************************************************************************)
IsEditSendStep == IsSendStep /\ lastEvent'.result = "edit"

C25_EditSendsTextOnly ==
    [][IsEditSendStep =>
         calls'[Len(calls')].contents.parts = << [text |-> Trim(inputValue)] >>]_vars

(***************************************************************************)
(* Replies to a design                                                     *)
(*                                                                         *)
(* Home with a design in its log: the reply and edit buttons, the input    *)
(* field, the file picker and the orchestrator, followed up to MaxReplyLog *)
(* turns.                                                                  *)
(***************************************************************************)
ReplyNext ==
    \/ \E v \in InputTexts : SetInputValue(v)
    \/ \E size \in {MaxFileSize, MaxFileSize + 1} : handleFileSelect(size)
    \/ FileReaderLoadEnd
    \/ RemoveUploadedImage
    \/ \E k \in 0..(MaxReplyLog - 1) : handleStartEdit(k)
    \/ handleCancelEdit
    \/ \E k \in 0..(MaxReplyLog - 1) : handleStartReply(k)
    \/ CancelReply
    \/ handleSendMessageWithin(MaxReplyLog)
    \/ \E i \in 1..MaxLog, outcome \in BackendOutcomes : SendSettles(i, outcome)

ReplySpec == DesignedInit /\ [][ReplyNext]_vars

(***************************************************************************)
(* C26: a send in Replying(turn) transmits the text, when there is one,    *)
(* then the decoded uploaded image, when there is one, then the decoded    *)
(* images of the replied-to turn in their stored order: part by part, the  *)
(* 2D plans of a part in floor order and then its 3D render. The new user  *)
(* turn is in the log the call is issued with.                             *)
(***************************************************************************)
IsReplySendStep == IsSendStep /\ lastEvent'.result = "reply"

\* the image handles a turn stores, in their stored order
RECURSIVE StoredHandles(_)
StoredHandles(parts) ==
    IF parts = << >> THEN << >>
    ELSE LET part == Head(parts)
         IN  (IF "plans2D" \in DOMAIN part THEN part.plans2D ELSE << >>)
                 \o (IF "plan3D" \in DOMAIN part THEN << part.plan3D >> ELSE << >>)
                 \o StoredHandles(Tail(parts))

Decoded(handles) ==
    [k \in 1..Len(handles) |-> [inlineData |-> dataURLtoBase64(handles[k])]]

OptionalText(text) == IF text = << >> THEN << >> ELSE << [text |-> text] >>

UserTurnAppended ==
    /\ Len(chatHistory') = Len(chatHistory) + 1
    /\ \A j \in 1..Len(chatHistory) : chatHistory'[j] = chatHistory[j]
    /\ chatHistory'[Len(chatHistory')].role = "user"
    /\ calls'[Len(calls')].historyForGeneration = chatHistory'

\* the claim as stated: the text and the images of the replied-to turn, nothing else
C26_ReplySendsTextAndTurnImages ==
    [][IsReplySendStep =>
         /\ calls'[Len(calls')].contents.parts =
                OptionalText(Trim(inputValue))
                    \o Decoded(StoredHandles(replyingToMessage.parts))
         /\ UserTurnAppended]_vars

C26_ReplySendsTextUploadAndTurnImages ==
    [][IsReplySendStep =>
         /\ calls'[Len(calls')].contents.parts =
                OptionalText(Trim(inputValue))
                    \o Decoded(IF uploadedImage = << >> THEN << >> ELSE << uploadedImage >>)
                    \o Decoded(StoredHandles(replyingToMessage.parts))
         /\ UserTurnAppended]_vars

\* a reply to the design has just been sent with a text and an uploaded image:
\* the call carries the text, the upload, the floor plan and the render
C26_Witness ==
    /\ lastEvent.op = "handleSendMessage"
    /\ lastEvent.result = "reply"
    /\ Len(calls) = 1
    /\ Len(calls[1].contents.parts) = 4
    /\ "text" \in DOMAIN calls[1].contents.parts[1]
    /\ calls[1].contents.parts[2].inlineData.data = << "U" >>
    /\ calls[1].contents.parts[4].inlineData.data = << "G", "2" >>
    /\ Len(chatHistory) = 3
    /\ chatHistory[3].role = "user"

(***************************************************************************)
(* C27: the undo history never loses its seed. Once the plan image has     *)
(* loaded and seeded it, the history has at least one element and its      *)
(* first element is the snapshot of the unmodified plan, whatever strokes, *)
(* undos and clears follow; undo removes exactly the last snapshot of a    *)
(* history longer than one and leaves a history of one alone; clear leaves *)
(* exactly the first element.                                              *)
(***************************************************************************)
Seeded == editingPlan # NullMessage /\ ~canvas.loading

SeedSnapshot == [base |-> Plan2DOf(editingPlan.parts), marks |-> 0]

C27_SeedIsKept ==
    /\ [](Seeded => Len(history) >= 1 /\ history[1] = SeedSnapshot)
    /\ [][Seeded /\ lastEvent'.op = "handleUndo" =>
            history' = IF Len(history) > 1
                       THEN [k \in 1..(Len(history) - 1) |-> history[k]]
                       ELSE history]_vars
    /\ [][Seeded /\ lastEvent'.op = "handleClear" => history' = << history[1] >>]_vars

\* a snapshot has just been undone, and what is left is the seed
C27_Witness ==
    /\ lastEvent.op = "handleUndo"
    /\ lastEvent.removed = 1
    /\ Seeded
    /\ history = << SeedSnapshot >>
    /\ canvas.marks = 0

(***************************************************************************)
(* C28: snapshots correspond one-to-one to completed strokes. A mouse-up   *)
(* or mouse-leave that ends a stroke appends exactly one snapshot, nothing *)
(* else appends one, and so a seeded history is longer than one exactly    *)
(* when the canvas carries a stroke beyond the seed.                       *)
(***************************************************************************)
\* the step ends a stroke: the button was down and the canvas has taken a mark
\* since the last snapshot
EndsStroke ==
    /\ lastEvent'.op = "finishDrawing"
    /\ isDrawing
    /\ canvas.marks > history[Len(history)].marks

C28_SnapshotPerStroke ==
    /\ [][Seeded /\ EndsStroke => Len(history') = Len(history) + 1]_vars
    /\ [][Seeded /\ Len(history') > Len(history) => EndsStroke]_vars
    /\ [](Seeded /\ ~isDrawing => (Len(history) > 1 <=> canvas.marks > 0))

(***************************************************************************)
(* The decoder and its callers taken alone (lines 307-313, 393-398,        *)
(* 713-717)                                                                *)
(*                                                                         *)
(* A handle of any shape is decoded, and then either attached to a request *)
(* the way handleSendMessage attaches the uploaded image, or used the way  *)
(* handlePlanClick uses the marked image.                                  *)
(***************************************************************************)
HandleStrings == StringsUpTo(CodecChars, MaxHandleLen)

HandleInit ==
    /\ HomeInit
    /\ ModalsUnmounted
    /\ argument = [mimeType |-> << >>, data |-> << >>]
    /\ handle \in HandleStrings
    /\ value = [mimeType |-> << >>, data |-> << >>]

\* lines 307-313 applied to the handle
DecodeHandle ==
    /\ lastEvent.op = "init"
    /\ value' = dataURLtoBase64(handle)
    /\ lastEvent' = [op |-> "decode"]
    /\ UNCHANGED << progVars, exploreVars, editPlanVars, argument, handle >>

\* lines 393-398: the image parts handleSendMessage pushes for the handle
AttachHandle ==
    /\ lastEvent.op = "decode"
    /\ lastEvent' = [op |-> "attach", parts |-> InlineParts(handle)]
    /\ UNCHANGED << progVars, otherVars >>

\* lines 713-717: handlePlanClick throws, or builds the image part
MarkHandle ==
    /\ lastEvent.op = "decode"
    /\ lastEvent' = IF ~Truthy(value.mimeType) \/ ~Truthy(value.data)
                    THEN [op |-> "mark", threw |-> TRUE, parts |-> << >>]
                    ELSE [op |-> "mark", threw |-> FALSE,
                          parts |-> << [inlineData |-> value] >>]
    /\ UNCHANGED << progVars, otherVars >>

HandleNext == DecodeHandle \/ AttachHandle \/ MarkHandle

HandleSpec == HandleInit /\ [][HandleNext]_vars

(***************************************************************************)
(* C29: a malformed handle, one without a comma or one whose header has no *)
(* MIME token between its first ':' and the next ';', is reported as a     *)
(* failure: the decoder returns no usable pair (the MIME type it returns   *)
(* is empty), handleSendMessage attaches no image part for it and          *)
(* handlePlanClick throws instead of building one.                         *)
(***************************************************************************)
HasComma(s) == \E i \in 1..Len(s) : s[i] = ","

\* what precedes the first comma
HeaderOf(s) ==
    LET i == CHOOSE n \in 1..Len(s) : s[n] = "," /\ \A m \in 1..(n - 1) : s[m] # ","
    IN  [k \in 1..(i - 1) |-> s[k]]

\* a non-empty token sits between the first ':' and the first ';' after it
HasMimeToken(header) ==
    \E i, j \in 1..Len(header) :
        /\ header[i] = ":" /\ \A k \in 1..(i - 1) : header[k] # ":"
        /\ header[j] = ";" /\ j > i + 1
        /\ \A k \in (i + 1)..(j - 1) : header[k] # ";"

Malformed(s) == ~HasComma(s) \/ ~HasMimeToken(HeaderOf(s))

C29_MalformedHandleFails ==
    (lastEvent.op \in {"decode", "attach", "mark"} /\ Malformed(handle)) =>
        /\ value.mimeType = << >>
        /\ lastEvent.op = "attach" => lastEvent.parts = << >>
        /\ lastEvent.op = "mark" => lastEvent.threw /\ lastEvent.parts = << >>

\* a handle with a MIME token and no comma has been decoded and nothing was
\* attached for it
C29_Witness ==
    /\ lastEvent.op = "attach"
    /\ handle = << ":", "x", ";", "x" >>
    /\ value = [mimeType |-> << >>, data |-> << >>]
    /\ lastEvent.parts = << >>

(***************************************************************************)
(* C30: an edit send replaces the text of the first text part of the       *)
(* addressed turn by the new text and leaves the other parts as they are;  *)
(* when the turn has no text part, a text part with the new text becomes   *)
(* its first part and the parts it had follow, unchanged and in their      *)
(* order. The turns of the log hold at most one text part each, so the map *)
(* over the text parts (lines 375-381) rewrites the first one and no       *)
(* other.                                                                  *)
(***************************************************************************)
IsTextPart(part) == "text" \in DOMAIN part

C30_ApplyEditReplacesOrInserts ==
    [][IsEditSendStep =>
         LET k == lastEvent'.editIndex + 1
             old == chatHistory[k].parts
             new == chatHistory'[k].parts
             t == Trim(inputValue)
         IN  IF \E i \in 1..Len(old) : IsTextPart(old[i])
             THEN LET first == CHOOSE i \in 1..Len(old) :
                                   /\ IsTextPart(old[i])
                                   /\ \A j \in 1..(i - 1) : ~IsTextPart(old[j])
                  IN  /\ Len(new) = Len(old)
                      /\ new[first] = [old[first] EXCEPT !.text = t]
                      /\ \A i \in 1..Len(old) : i # first => new[i] = old[i]
             ELSE /\ Len(new) = Len(old) + 1
                  /\ new[1] = [text |-> t]
                  /\ \A i \in 1..Len(old) : new[i + 1] = old[i]]_vars

\* a turn that held only the preview of an uploaded image has just been edited:
\* the new text is its first part and the preview follows
C30_Witness ==
    /\ lastEvent.op = "handleSendMessage"
    /\ lastEvent.result = "edit"
    /\ ~lastEvent.textPartFound
    /\ chatHistory[lastEvent.editIndex + 1].parts =
           << [text |-> << "a" >>],
              [plans2D |-> << << "data", ":", "image/png", ";", "base64", ",", "U" >> >>] >>

(***************************************************************************)
(* C31: cancelEdit and cancelReply each leave the pending intent Idle:     *)
(* after either cancel neither the editing index nor the replied-to turn   *)
(* is set, and the conversation log is what it was.                        *)
(***************************************************************************)
IsCancelStep == lastEvent'.op \in {"handleCancelEdit", "cancelReply"}

C31_CancelLeavesIdle ==
    [][IsCancelStep => /\ editingMessageIndex' = -1
                       /\ replyingToMessage' = [role |-> "null", parts |-> << >>]
                       /\ chatHistory' = chatHistory]_vars

(***************************************************************************)
(* C32: in every reachable state every model turn of the log has at most   *)
(* one part that carries plans2D or plan3D, and no part of any turn        *)
(* carries a text together with a plan bundle.                             *)
(***************************************************************************)
IsBundlePart(part) == "plans2D" \in DOMAIN part \/ "plan3D" \in DOMAIN part

BundleCount(parts) == Cardinality({j \in 1..Len(parts) : IsBundlePart(parts[j])})

C32_OneBundlePerTurn ==
    \A i \in 1..Len(chatHistory) :
        /\ chatHistory[i].role = "model" => BundleCount(chatHistory[i].parts) <= 1
        /\ \A j \in 1..Len(chatHistory[i].parts) :
               ~("text" \in DOMAIN chatHistory[i].parts[j]
                    /\ IsBundlePart(chatHistory[i].parts[j]))

\* a response with a text and two images has just been appended: the turn has a
\* text part and one bundle part
C32_Witness ==
    /\ lastEvent.op = "sendSettles"
    /\ lastEvent.outcome = "content"
    /\ LET parts == chatHistory[Len(chatHistory)].parts
       IN  /\ Len(parts) = 2
           /\ DOMAIN parts[1] = {"text"}
           /\ DOMAIN parts[2] = {"plans2D", "plan3D"}
           /\ BundleCount(parts) = 1

(***************************************************************************)
(* Response parsing taken alone (lines 469-504)                            *)
(*                                                                         *)
(* A response whose first candidate holds texts and inline images in any   *)
(* order, with or without a further candidate, is parsed and made into the *)
(* parts of a model turn.                                                  *)
(***************************************************************************)
\* the parts a candidate is made of: two texts, an empty text, two images
ParseParts ==
    {[text |-> << "r" >>], [text |-> << "s" >>], [text |-> << >>],
     ResponseImage(1), ResponseImage(2)}

FirstCandidates == StringsUpTo(ParseParts, MaxParseLen)

\* what a further candidate may hold
FurtherCandidates ==
    {<< >>, << [text |-> << "t" >>] >>, << ResponseImage(3) >>,
     << [text |-> << "t" >>], ResponseImage(3), ResponseImage(4) >>}

ParseResponses ==
    {[candidates |-> << [content |-> [parts |-> ps]] >>] : ps \in FirstCandidates}
    \cup {[candidates |-> << [content |-> [parts |-> ps]], [content |-> [parts |-> qs]] >>] :
              ps \in FirstCandidates, qs \in FurtherCandidates}

ParseInit ==
    /\ HomeInit
    /\ ModalsUnmounted
    /\ argument \in ParseResponses
    /\ handle = << >>
    /\ value = [mimeType |-> << >>, data |-> << >>]

\* lines 469-504 applied to the response
Parse ==
    /\ lastEvent.op = "init"
    /\ LET parsed == ParseResponse(argument)
       IN  value' = [textResponse |-> parsed.textResponse,
                     imageResponses |-> parsed.imageResponses,
                     parts |-> ModelResponseParts(parsed.textResponse,
                                                  parsed.imageResponses)]
    /\ lastEvent' = [op |-> "parse"]
    /\ UNCHANGED << progVars, exploreVars, editPlanVars, argument, handle >>

ParseNext == Parse

ParseSpec == ParseInit /\ [][ParseNext]_vars

(***************************************************************************)
(* C33: parsing reads the first candidate only. The text of the model turn *)
(* is the concatenation of that candidate's text parts in received order   *)
(* and its image sequence is that candidate's inline images in received    *)
(* order, however texts and images are interleaved and whatever a further  *)
(* candidate holds.                                                        *)
(***************************************************************************)
RECURSIVE TextsOf(_)
TextsOf(parts) ==
    IF parts = << >> THEN << >>
    ELSE (IF "text" \in DOMAIN Head(parts) THEN Head(parts).text ELSE << >>)
             \o TextsOf(Tail(parts))

RECURSIVE InlineImagesOf(_)
InlineImagesOf(parts) ==
    IF parts = << >> THEN << >>
    ELSE (IF "inlineData" \in DOMAIN Head(parts)
          THEN << << "data", ":" >> \o Head(parts).inlineData.mimeType
                      \o << ";", "base64", "," >> \o Head(parts).inlineData.data >>
          ELSE << >>)
             \o InlineImagesOf(Tail(parts))

C33_FirstCandidateInOrder ==
    lastEvent.op = "parse" =>
        LET first == argument.candidates[1].content.parts
            text == TextsOf(first)
            images == InlineImagesOf(first)
            textParts == SelectSeq(value.parts, LAMBDA p : "text" \in DOMAIN p)
        IN  /\ value.textResponse = text
            /\ value.imageResponses = images
            /\ StoredHandles(value.parts) = images
            /\ text # << >> => textParts = << [text |-> text] >>

\* two texts around an image, and a further candidate with a text and images of
\* its own: the turn has the two texts joined and the one image
C33_Witness ==
    /\ lastEvent.op = "parse"
    /\ Len(argument.candidates) = 2
    /\ argument.candidates[1].content.parts =
           << [text |-> << "r" >>], ResponseImage(1), [text |-> << "s" >>] >>
    /\ Len(argument.candidates[2].content.parts) = 3
    /\ value.textResponse = << "r", "s" >>
    /\ Len(value.imageResponses) = 1

(***************************************************************************)
(* C34: an uploaded image goes out with the next new message or reply:     *)
(* when such a send is accepted with an image uploaded, the user turn it   *)
(* writes to the log has the image as its preview part, the outgoing parts *)
(* hold the decoded image, and the uploaded image is cleared. An edit send *)
(* sends no image and adds no preview to the edited turn, and clears the   *)
(* uploaded image all the same.                                            *)
(***************************************************************************)
\* the part list holds the uploaded image, decoded
CarriesUpload(parts) ==
    \E j \in 1..Len(parts) :
        /\ "inlineData" \in DOMAIN parts[j]
        /\ << "data", ":" >> \o parts[j].inlineData.mimeType
               \o << ";", "base64", "," >> \o parts[j].inlineData.data = uploadedImage

\* the turn the step leaves at the end of the log previews the uploaded image
PreviewsUpload ==
    LET turn == chatHistory'[Len(chatHistory')]
    IN  /\ turn.role = "user"
        /\ \E j \in 1..Len(turn.parts) : turn.parts[j] = [plans2D |-> << uploadedImage >>]

UploadAttached ==
    /\ Len(chatHistory') = Len(chatHistory) + 1
    /\ PreviewsUpload
    /\ CarriesUpload(calls'[Len(calls')].contents.parts)
    /\ uploadedImage' = << >>

\* the claim as stated: every accepted send attaches the uploaded image
C34_EverySendAttachesUpload ==
    [][IsAcceptedSendStep /\ uploadedImage # << >> => UploadAttached]_vars

C34_NewSendAttachesUpload ==
    [][IsAcceptedSendStep /\ uploadedImage # << >> =>
         IF lastEvent'.result = "edit"
         THEN /\ ~CarriesUpload(calls'[Len(calls')].contents.parts)
              /\ NonTextParts(chatHistory'[Len(chatHistory')].parts)
                     = NonTextParts(chatHistory[lastEvent'.editIndex + 1].parts)
              /\ uploadedImage' = << >>
         ELSE UploadAttached]_vars

\* a new message with a text and an uploaded image has just been sent
C34_Witness ==
    /\ lastEvent.op = "handleSendMessage"
    /\ lastEvent.result = "new"
    /\ uploadedImage = << >>
    /\ LET turn == chatHistory[Len(chatHistory)]
           sent == calls[Len(calls)].contents.parts
       IN  /\ turn.role = "user"
           /\ Len(turn.parts) = 2
           /\ turn.parts[2] = [plans2D |-> << << "data", ":", "image/png", ";", "base64", ",", "U" >> >>]
           /\ Len(sent) = 2
           /\ sent[2] = [inlineData |-> [mimeType |-> << "image/png" >>, data |-> << "U" >>]]

(***************************************************************************)
(* A revision and a send in flight together                                *)
(*                                                                         *)
(* Home with a design in its log, the edit-plan modal and the              *)
(* orchestrator: a revision is submitted, the modal is closed or the       *)
(* conversation reset, a message is sent or a turn edited, and the two     *)
(* calls settle in either order. The log is followed up to MaxReplyLog     *)
(* turns.                                                                  *)
(***************************************************************************)
OverlapNext ==
    \/ \E v \in {<< >>, << "a" >>} : SetInputValue(v)
    \/ handleClearChat
    \/ \E k \in 0..(MaxReplyLog - 1) : handleStartEdit(k)
    \/ handleSendMessageWithin(MaxReplyLog)
    \/ \E i \in 1..MaxLog, outcome \in BackendOutcomes : SendSettles(i, outcome)
    \/ \E k \in 0..(MaxReplyLog - 1) : handleStartPlanEdit(k)
    \/ PlanImageLoads
    \/ \E v \in PromptTexts : SetPrompt(v)
    \/ finishDrawing
    \/ handleSubmit
    \/ \E i \in 1..MaxLog, outcome \in BackendOutcomes : ReviseSettles(i, outcome)
    \/ CloseEditPlan

OverlapSpec == DesignedInit /\ [][OverlapNext]_vars

(***************************************************************************)
(* C35: no turn is lost when a revision and a send are in flight together. *)
(* Whichever call completes, and in whichever order, its continuation      *)
(* appends one model turn to the end of the log as it is then and keeps    *)
(* every turn that log holds, the turn of the other call among them if it  *)
(* completed first.                                                        *)
(***************************************************************************)
IsCompletionStep == lastEvent'.op = "sendSettles" \/ IsRevisionApplied

C35_CompletionsAppend ==
    [][IsCompletionStep =>
         /\ Len(chatHistory') = Len(chatHistory) + 1
         /\ \A j \in 1..Len(chatHistory) : chatHistory'[j] = chatHistory[j]
         /\ chatHistory'[Len(chatHistory')].role = "model"]_vars

\* a send and a revision were in flight together; the send has just completed
\* and its turn follows the user turn, while the revision is still awaited
C35_Witness ==
    /\ lastEvent.op = "sendSettles"
    /\ Len(reviseCalls) = 1
    /\ calls = << >>
    /\ Len(chatHistory) = 4
    /\ chatHistory[2] = DesignedTurn
    /\ chatHistory[3].role = "user"
    /\ chatHistory[4].role = "model"

(***************************************************************************)
(* C36: in every reachable state the conversation log is non-empty and its *)
(* first element is the welcome turn, unmodified: no send, edit            *)
(* truncation, revision or reset removes or alters it.                     *)
(***************************************************************************)
C36_WelcomeStays ==
    /\ Len(chatHistory) >= 1
    /\ chatHistory[1].role = "model"
    /\ chatHistory[1].parts = << [text |-> WelcomeText] >>

\* an edit send has just cut the log back to the welcome turn and the edited turn
C36_Witness ==
    /\ lastEvent.op = "handleSendMessage"
    /\ lastEvent.result = "edit"
    /\ lastEvent.discarded >= 1
    /\ Len(chatHistory) = 2
    /\ chatHistory[1] = DEFAULT_CHAT[1]
    /\ chatHistory[2].role = "user"

(***************************************************************************)
(* C37: while a user turn is being edited, the editing index is a valid    *)
(* index of the log and the turn there is a user turn; the index is only   *)
(* set on a user turn while no send is in flight, and every step that      *)
(* shortens the log leaves no turn being edited.                           *)
(***************************************************************************)
C37_EditingIndexIsUserTurn ==
    /\ [](editingMessageIndex # -1 =>
            /\ editingMessageIndex \in 0..(Len(chatHistory) - 1)
            /\ chatHistory[editingMessageIndex + 1].role = "user")
    /\ [][(editingMessageIndex' # editingMessageIndex /\ editingMessageIndex' # -1) =>
            /\ ~isLoading
            /\ editingMessageIndex' \in 0..(Len(chatHistory) - 1)
            /\ chatHistory[editingMessageIndex' + 1].role = "user"
            /\ chatHistory' = chatHistory]_vars
    /\ [][Len(chatHistory') < Len(chatHistory) => editingMessageIndex' = -1]_vars

\* the second turn of a three-turn log is being edited: sending it, or a
\* reset, would shorten the log
C37_Witness ==
    /\ lastEvent.op = "handleStartEdit"
    /\ editingMessageIndex = 1
    /\ Len(chatHistory) = 3
    /\ chatHistory[2].role = "user"
    /\ ~isLoading

(***************************************************************************)
(* C38: a reset while a send is in flight neither cancels the call nor     *)
(* clears the busy flag and leaves the log as the single welcome turn;     *)
(* when the call then completes, exactly one model turn is appended to     *)
(* that log, with no user turn before it.                                  *)
(***************************************************************************)
C38_ResetKeepsSendInFlight ==
    [][/\ (lastEvent'.op = "handleClearChat" /\ calls # << >>) =>
              /\ calls' = calls
              /\ isLoading'
              /\ Len(chatHistory') = 1
              /\ chatHistory'[1].parts = << [text |-> WelcomeText] >>
       /\ (lastEvent'.op = "sendSettles" /\ Len(chatHistory) = 1) =>
              /\ Len(chatHistory') = 2
              /\ chatHistory'[1] = chatHistory[1]
              /\ \A j \in 1..2 : chatHistory'[j].role = "model"
              /\ Len(calls') = Len(calls) - 1]_vars

\* the call that was in flight across a reset has completed: its model turn
\* follows the welcome turn directly
C38_Witness ==
    /\ lastEvent.op = "sendSettles"
    /\ Len(chatHistory) = 2
    /\ chatHistory[1] = DEFAULT_CHAT[1]
    /\ chatHistory[2].role = "model"
    /\ calls = << >>
    /\ ~isLoading

(***************************************************************************)
(* C39: closing the Annotate-and-Revise modal, by its cancel button or by  *)
(* a conversation reset, while its generation is in flight does not cancel *)
(* the generation: when the call later returns at least two images, its    *)
(* model turn is appended to the end of the log as it then is.             *)
(***************************************************************************)
C39_ClosedModalStillApplies ==
    [][/\ (lastEvent'.op \in {"closeEditPlan", "handleClearChat"} /\ reviseCalls # << >>) =>
              /\ Len(reviseCalls') = Len(reviseCalls)
              /\ editingPlan' = [role |-> "null", parts |-> << >>]
       /\ (/\ lastEvent'.op = "reviseSettles"
           /\ ~lastEvent'.mounted
           /\ Len(lastEvent'.images) >= 2) =>
              /\ Len(chatHistory') = Len(chatHistory) + 1
              /\ \A j \in 1..Len(chatHistory) : chatHistory'[j] = chatHistory[j]
              /\ chatHistory'[Len(chatHistory')].role = "model"
              /\ BundleCount(chatHistory'[Len(chatHistory')].parts) = 1
              /\ Len(reviseCalls') = Len(reviseCalls) - 1]_vars

\* the modal's conversation was reset while its generation was in flight; the
\* generation has succeeded and its turn follows the welcome turn
C39_Witness ==
    /\ lastEvent.op = "reviseSettles"
    /\ ~lastEvent.mounted
    /\ Len(lastEvent.images) >= 2
    /\ Len(chatHistory) = 2
    /\ chatHistory[1] = DEFAULT_CHAT[1]
    /\ chatHistory[2].role = "model"
    /\ chatHistory[2] # DesignedTurn

(***************************************************************************)
(* C40: a send while a turn k is being edited, with an input that is empty *)
(* or blank, is not rejected: the edited turn's text becomes the empty     *)
(* string, the log is cut to k+1 turns, and a call is issued whose         *)
(* outgoing parts list is empty.                                           *)
(***************************************************************************)
IsBlankEditSend ==
    /\ IsSendStep
    /\ editingMessageIndex # -1
    /\ \A i \in 1..Len(inputValue) : inputValue[i] = Space

C40_BlankEditIsSent ==
    [][IsBlankEditSend =>
         /\ lastEvent'.result = "edit"
         /\ Len(chatHistory') = editingMessageIndex + 1
         /\ \A j \in 1..editingMessageIndex : chatHistory'[j] = chatHistory[j]
         /\ LET parts == chatHistory'[editingMessageIndex + 1].parts
            IN  /\ \E i \in 1..Len(parts) : "text" \in DOMAIN parts[i]
                /\ \A i \in 1..Len(parts) : "text" \in DOMAIN parts[i] => parts[i].text = << >>
         /\ Len(calls') = Len(calls) + 1
         /\ calls'[Len(calls')].contents.parts = << >>]_vars

\* the edit of the second turn was sent with a blank input: the design after it
\* is gone and the call in flight carries no part
C40_Witness ==
    /\ lastEvent.op = "handleSendMessage"
    /\ lastEvent.result = "edit"
    /\ lastEvent.oldText # << >>
    /\ lastEvent.discarded >= 1
    /\ Len(chatHistory) = 2
    /\ FirstText(chatHistory[2].parts) = << >>
    /\ Len(calls) = 1
    /\ calls[1].contents.parts = << >>

====
